---- MODULE Spec2Model ----
(***************************************************************************)
(* A model of the CLOB sequencer: the multi-fill matcher                   *)
(* (cmd/matcher/matcher.go), the settlement submitter with its failed      *)
(* batch queue (cmd/submitter/submitter.go) and the order admission        *)
(* handler (main.go, handleOrders).                                        *)
(*                                                                         *)
(* Amounts.  The code keeps amounts as decimal strings, parses them to    *)
(* float64, and writes them back with "%.8f".  Here a parseable amount     *)
(* string is the integer number of Unit = 2e-9 it denotes, so that         *)
(* 1e-8 = Eps = 5 units and "%.8f" rounds to the nearest multiple of 5     *)
(* (no value is ever half-way).  BadAmount stands for a string that        *)
(* strconv.ParseFloat rejects and NaNAmount for the string "NaN", which it  *)
(* reads as the float64 NaN.  Amounts are small enough for float64 to      *)
(* carry them exactly to eight decimals.                                   *)
(*                                                                         *)
(* Sorting.  sort.Slice (Go 1.23, pdqsort) runs an insertion sort on       *)
(* slices of at most 12 elements, which is stable; a longer slice is       *)
(* partitioned around a pivot first, which is not.  sortSlice follows the  *)
(* build on slices of up to 13 elements.                                   *)
(***************************************************************************)
EXTENDS Integers, Sequences, FiniteSets, TLC

\* ------------------------------------------------------------------ bounds

\* Longest order sequence handed to MatchAndBatch in SpecFn.
MaxLen == 4

\* Largest max_batch tried in SpecFn.
MaxBatchTried == 3

\* Largest MAX_RETRIES tried.
MaxRetriesTried == 4

\* The MAX_RETRIES the server is started with.
SrvRetriesTried == 2

\* SubmitBatch calls and RetryFailedBatches passes in one behaviour.
MaxCalls == 2

MaxPasses == 1

\* Orders posted to the server in one behaviour.
MaxAdmit == 3

\* ------------------------------------------------------------- constants

\* 0.00000001, the matcher's epsilon, in units of 2e-9.
Eps == 5

\* An amount string that strconv.ParseFloat rejects.
BadAmount == 0 - 1

\* The amount string "NaN": strconv.ParseFloat returns the float64 NaN for
\* it, with a nil error.
NaNAmount == 0 - 2

\* ------------------------------------------------------------ the matcher

\* The float64 operators <=, <, -, + and * of the code: a comparison with
\* NaN is false and arithmetic on NaN gives NaN.
IsNaN(x) == x = NaNAmount

fle(a, b) == ~IsNaN(a) /\ ~IsNaN(b) /\ a <= b

flt(a, b) == ~IsNaN(a) /\ ~IsNaN(b) /\ a < b

fsub(a, b) == IF IsNaN(a) \/ IsNaN(b) THEN NaNAmount ELSE a - b

fadd(a, b) == IF IsNaN(a) \/ IsNaN(b) THEN NaNAmount ELSE a + b

fmul(a, b) == IF IsNaN(a) \/ IsNaN(b) THEN NaNAmount ELSE a * b

min(a, b) == IF flt(a, b) THEN a ELSE b

\* parseAmount with < in place of <=: zero is let through.
parseAmountMutant(amountStr) ==
    IF amountStr = BadAmount THEN [ok |-> FALSE, val |-> 0]
    ELSE IF flt(amountStr, 0) THEN [ok |-> FALSE, val |-> 0]
    ELSE [ok |-> TRUE, val |-> amountStr]

\* parseAmount: an error for an amount that does not parse or is <= 0.
parseAmount(amountStr) ==
    IF amountStr = BadAmount THEN [ok |-> FALSE, val |-> 0]
    ELSE IF fle(amountStr, 0) THEN [ok |-> FALSE, val |-> 0]
    ELSE [ok |-> TRUE, val |-> amountStr]

\* formatAmount: "%.8f", the nearest multiple of 1e-8; NaN is written "NaN".
formatAmount(amount) ==
    IF IsNaN(amount) THEN NaNAmount
    ELSE LET r == amount % Eps
         IN  IF 2 * r < Eps THEN amount - r ELSE amount - r + Eps

\* orderHash: SHA-256 over the seven wire fields, taken as injective.
\* A hash that leaves the two amounts out.
orderHashMutant(order) ==
    <<order.Maker, order.TakerAsset, order.Price, order.Timestamp,
      order.Signature>>

orderHash(order) ==
    <<order.Maker, order.TakerAsset, order.MakeAmount, order.TakeAmount,
      order.Price, order.Timestamp, order.Signature>>

\* sortOrders' less function with the timestamp comparison turned around.
LessPriceTimeMutant(a, b) ==
    IF a.Price # b.Price THEN a.Price > b.Price ELSE a.Timestamp > b.Timestamp

\* The less function of sortOrders.
LessPriceTime(a, b) ==
    IF a.Price # b.Price THEN a.Price > b.Price ELSE a.Timestamp < b.Timestamp

\* The less function of splitBidsAsks.
LessPrice(a, b) == a.Price > b.Price

Less(byTime, a, b) == IF byTime THEN LessPriceTime(a, b) ELSE LessPrice(a, b)

RECURSIVE InsertSorted(_, _, _)
\* One pass of the insertion sort's inner loop: x moves left past every
\* element it is less than.
InsertSorted(byTime, sorted, x) ==
    IF sorted = <<>> THEN <<x>>
    ELSE IF Less(byTime, x, sorted[Len(sorted)])
         THEN Append(InsertSorted(byTime, SubSeq(sorted, 1, Len(sorted) - 1), x),
                     sorted[Len(sorted)])
         ELSE Append(sorted, x)

RECURSIVE InsertionSort(_, _)
InsertionSort(byTime, s) ==
    IF s = <<>> THEN <<>>
    ELSE InsertSorted(byTime, InsertionSort(byTime, SubSeq(s, 1, Len(s) - 1)), s[Len(s)])

\* sort.Slice sorts a slice of at most maxInsertion elements by insertion.
maxInsertion == 12

\* data.Swap(i, j) and data.Less(i, j) of sort.Slice, on 0-based indices.
Swap(data, i, j) ==
    [data EXCEPT ![i + 1] = data[j + 1], ![j + 1] = data[i + 1]]

LessAt(byTime, data, i, j) == Less(byTime, data[i + 1], data[j + 1])

\* order2 of sort.Slice on two of the three indices v.a, v.b, v.c (x and y
\* name them): the two are exchanged when the element at the second is less
\* than the element at the first, and v.swaps counts the exchanges.
order2(byTime, data, v, x, y) ==
    IF LessAt(byTime, data, v[y], v[x])
    THEN [v EXCEPT ![x] = v[y], ![y] = v[x], !.swaps = @ + 1]
    ELSE v

\* median of sort.Slice: three calls of order2, on (a, b), (b, c), (a, b);
\* the median of the three elements is then at index .b of the result.
median(byTime, data, a, b, c) ==
    order2(byTime, data,
           order2(byTime, data,
                  order2(byTime, data, [a |-> a, b |-> b, c |-> c, swaps |-> 0],
                         "a", "b"),
                  "b", "c"),
           "a", "b")

\* What choosePivot returns for the median it has found: the slice is hinted
\* as increasing when the three elements were in order.
pivotAndHint(md) ==
    [pivot |-> md.b, hint |-> IF md.swaps = 0 THEN "increasing" ELSE "unknown"]

\* choosePivot of sort.Slice on a whole slice of 13 to 49 elements: the
\* median of the elements at the three quarter points.
choosePivot(byTime, data) ==
    pivotAndHint(median(byTime, data, (Len(data) \div 4) * 1,
                        (Len(data) \div 4) * 2, (Len(data) \div 4) * 3))

\* partialInsertionSort of sort.Slice on a slice shorter than 50: TRUE when
\* no element is less than the one before it; the slice is left as it is.
partialInsertionSort(byTime, data) ==
    \A i \in 1..(Len(data) - 1) : ~LessAt(byTime, data, i, i - 1)

RECURSIVE ScanUp(_, _, _, _)
\* for i <= j && data.Less(i, a) { i++ }, with a = 0.
ScanUp(byTime, data, i, j) ==
    IF i <= j /\ LessAt(byTime, data, i, 0)
    THEN ScanUp(byTime, data, i + 1, j) ELSE i

RECURSIVE ScanDown(_, _, _, _)
\* for i <= j && !data.Less(j, a) { j-- }, with a = 0.
ScanDown(byTime, data, i, j) ==
    IF i <= j /\ ~LessAt(byTime, data, j, 0)
    THEN ScanDown(byTime, data, i, j - 1) ELSE j

RECURSIVE PartitionLoop(_, _, _, _)
\* After the two scans of partition: when the indices have met the pivot
\* goes from the front to its place j, which is returned as mid; otherwise
\* the two elements are exchanged and the scans go on.
PartitionSwap(byTime, data, i, j) ==
    IF i > j THEN [data |-> Swap(data, j, 0), mid |-> j]
    ELSE PartitionLoop(byTime, Swap(data, i, j), i + 1, j - 1)

\* The scans of partition: i moves up past the elements less than the pivot
\* at the front, then j moves down past those not less than it.  (The code
\* writes the first round out before its loop; it is the same round.)
PartitionLoop(byTime, data, i, j) ==
    PartitionSwap(byTime, data, ScanUp(byTime, data, i, j),
                  ScanDown(byTime, data, ScanUp(byTime, data, i, j), j))

\* partition of sort.Slice on the whole slice: the pivot goes to the front,
\* the rest is partitioned, the pivot goes to its place mid.
partition(byTime, data, pivot) ==
    PartitionLoop(byTime, Swap(data, 0, pivot), 1, Len(data) - 1)

RECURSIVE sortSlice(_, _)
\* pdqsort after partition: both sides of the pivot are sorted.
sortSides(byTime, pt) ==
    sortSlice(byTime, SubSeq(pt.data, 1, pt.mid))
    \o <<pt.data[pt.mid + 1]>>
    \o sortSlice(byTime, SubSeq(pt.data, pt.mid + 2, Len(pt.data)))

\* pdqsort after choosePivot: a slice hinted as increasing and found sorted
\* is left alone; any other is partitioned around the pivot.
sortAround(byTime, data, cp) ==
    IF cp.hint = "increasing" /\ partialInsertionSort(byTime, data)
    THEN data
    ELSE sortSides(byTime, partition(byTime, data, cp.pivot))

\* sort.Slice of Go 1.23 (pdqsort) on a slice of up to 13 elements: by
\* insertion up to maxInsertion elements; a longer slice is left alone when
\* it is found sorted, and is otherwise partitioned around the pivot, after
\* which both sides are sorted.  (With up to 13 elements both sides are
\* within maxInsertion; what pdqsort does to a longer side after an
\* unbalanced partition is not modelled.)
sortSlice(byTime, data) ==
    IF Len(data) <= maxInsertion THEN InsertionSort(byTime, data)
    ELSE sortAround(byTime, data, choosePivot(byTime, data))

sortOrders(orders) == sortSlice(TRUE, orders)

\* Index (0-based) at which splitBidsAsks cuts the sorted slice.
Midpoint(n) == IF n % 2 = 1 THEN n \div 2 + 1 ELSE n \div 2

splitBidsAsks(orders) ==
    LET sorted == sortSlice(FALSE, orders)
        midpoint == Midpoint(Len(sorted))
    IN  [bids |-> SubSeq(sorted, 1, midpoint),
         asks |-> SubSeq(sorted, midpoint + 1, Len(sorted))]

\* A Merkle builder that also refuses a single leaf.
computeMerkleRootMutant(fills) ==
    IF Len(fills) <= 1 THEN [err |-> TRUE, root |-> <<>>]
    ELSE [err |-> FALSE, root |-> <<"root", fills>>]

\* computeMerkleRoot: the root commits to the leaves and their order; an
\* empty fill list is an error.
computeMerkleRoot(fills) ==
    IF Len(fills) = 0 THEN [err |-> TRUE, root |-> <<>>]
    ELSE [err |-> FALSE, root |-> <<"root", fills>>]

\* The survival test with >= in place of >.
KeepsMutant(amountStr) ==
    parseAmount(amountStr).ok /\ fle(Eps, parseAmount(amountStr).val)

\* Whether the amount survives the "err == nil && amount > 0.00000001" test.
Keeps(amountStr) ==
    parseAmount(amountStr).ok /\ flt(Eps, parseAmount(amountStr).val)

\* Whether the crossing loop advances past an order with this leftover.
Exhausted(leftover) == fle(leftover, Eps)

\* The price test with <= in place of <: equal prices do not cross.
NoCrossMutant(bid, ask) == bid.Price <= ask.Price

\* The price test that ends the crossing loop.
NoCross(bid, ask) == bid.Price < ask.Price

\* The loop condition with <= in place of < on the batch size.
LoopGuardMutant(st, maxBatch) ==
    Len(st.fills) <= maxBatch /\ st.i < Len(st.bids) /\ st.j < Len(st.asks)

\* The condition of the crossing loop.
LoopGuard(st, maxBatch) ==
    Len(st.fills) < maxBatch /\ st.i < Len(st.bids) /\ st.j < Len(st.asks)

RECURSIVE Cross(_, _)
\* The multi-fill matching loop.  st.i and st.j are the code's 0-based
\* indices; st.events records, for every fill, the two orders as they stood
\* before the fill, the indices they were taken from and what the fill left
\* of each.
Cross(st, maxBatch) ==
    IF ~LoopGuard(st, maxBatch)
    THEN st
    ELSE
      LET bid == st.bids[st.i + 1]
          ask == st.asks[st.j + 1]
          pb == parseAmount(bid.MakeAmount)
          pa == parseAmount(ask.TakeAmount)
      IN  IF NoCross(bid, ask) THEN [st EXCEPT !.broke = TRUE]
          ELSE IF ~pb.ok THEN Cross([st EXCEPT !.i = @ + 1], maxBatch)
          ELSE IF ~pa.ok THEN Cross([st EXCEPT !.j = @ + 1], maxBatch)
          ELSE
            LET fillQty == min(pb.val, pa.val)
                fill == [MakerHash |-> orderHash(bid),
                         TakerHash |-> orderHash(ask),
                         Quantity |-> formatAmount(fillQty)]
                bidLeft == fsub(pb.val, fillQty)
                askLeft == fsub(pa.val, fillQty)
            IN  Cross([st EXCEPT
                         !.fills = Append(@, fill),
                         !.events = Append(@, [bid |-> bid, ask |-> ask,
                                               i |-> st.i, j |-> st.j,
                                               qty |-> formatAmount(fillQty),
                                               bidLeft |-> bidLeft,
                                               askLeft |-> askLeft]),
                         !.bids[st.i + 1].MakeAmount = formatAmount(bidLeft),
                         !.asks[st.j + 1].TakeAmount = formatAmount(askLeft),
                         !.i = IF Exhausted(bidLeft) THEN @ + 1 ELSE @,
                         !.j = IF Exhausted(askLeft) THEN @ + 1 ELSE @],
                      maxBatch)

\* The survivor loops started one index too far.
KeptFromMutant(s, from, isBid) ==
    SelectSeq(SubSeq(s, from + 2, Len(s)),
              LAMBDA o: Keeps(IF isBid THEN o.MakeAmount ELSE o.TakeAmount))

\* The survivors among s[from+1 ..], by the amount field of their side.
KeptFrom(s, from, isBid) ==
    SelectSeq(SubSeq(s, from + 1, Len(s)),
              LAMBDA o: Keeps(IF isBid THEN o.MakeAmount ELSE o.TakeAmount))

\* The re-add of the order just before the final index.
ReAdd(s, idx, isBid) ==
    IF idx > 0 /\ idx <= Len(s)
    THEN KeptFrom(SubSeq(s, idx, idx), 0, isBid)
    ELSE <<>>

\* What MatchAndBatch returns once the crossing loop has ended in st, the
\* split having been bids and asks.  root and fillsBytes are <<>> where the
\* code returns "" and nil; err is the returned error; readded is what the
\* two re-add branches appended to remainingOrders.
Returned(orders, bids, asks, st) ==
    LET readded == ReAdd(st.bids, st.i, TRUE) \o ReAdd(st.asks, st.j, FALSE)
        remainingOrders ==
            KeptFrom(st.bids, st.i, TRUE) \o KeptFrom(st.asks, st.j, FALSE)
            \o readded
        mr == computeMerkleRoot(st.fills)
    IN  IF Len(st.fills) = 0
        THEN [root |-> <<>>, fillsBytes |-> <<>>, remaining |-> orders,
              err |-> FALSE, events |-> <<>>, broke |-> st.broke,
              bids |-> bids, asks |-> asks, readded |-> readded]
        ELSE IF mr.err
        THEN [root |-> <<>>, fillsBytes |-> <<>>, remaining |-> remainingOrders,
              err |-> TRUE, events |-> st.events, broke |-> st.broke,
              bids |-> bids, asks |-> asks, readded |-> readded]
        ELSE [root |-> mr.root, fillsBytes |-> st.fills,
              remaining |-> remainingOrders, err |-> FALSE,
              events |-> st.events, broke |-> st.broke,
              bids |-> bids, asks |-> asks, readded |-> readded]

\* MatchAndBatch from the split on: the crossing loop on working copies of
\* the bids and the asks.
Matched(orders, split, maxBatch) ==
    Returned(orders, split.bids, split.asks,
             Cross([bids |-> split.bids, asks |-> split.asks, i |-> 0, j |-> 0,
                    fills |-> <<>>, events |-> <<>>, broke |-> FALSE], maxBatch))

\* MatchAndBatch(orders, maxBatch).
MatchAndBatch(orders, maxBatch) ==
    IF Len(orders) < 2
    THEN [root |-> <<>>, fillsBytes |-> <<>>, remaining |-> orders, err |-> FALSE,
          events |-> <<>>, broke |-> FALSE, bids |-> <<>>, asks |-> <<>>,
          readded |-> <<>>]
    ELSE Matched(orders, splitBidsAsks(sortOrders(orders)), maxBatch)

\* ------------------------------------------------------------------ state

VARIABLES
    fnOrders,       \* SpecFn: the order sequence handed to MatchAndBatch
    fnMaxBatch,     \* SpecFn: the maxBatch handed to MatchAndBatch
    fnResult,       \* SpecFn: what the last call returned
    fnPc,           \* SpecFn: "call" before the call, "done" after it
    maxRetries,     \* submitter: MAX_RETRIES as read by init()
    failedBatches,  \* submitter: the failed batch queue
    now,            \* submitter: the clock read by time.Now() on enqueue
    sub,            \* per caller: its SubmitBatch call
    rt,             \* per retrier: its RetryFailedBatches pass
    backoffMS,      \* submitter: BACKOFF_MS as read by init()
    failedMutex,    \* submitter: the thread holding failedMutex, or Free
    chain,          \* the chain: the batches broadcast to it, and whether mined
    calls,          \* SubmitBatch calls started so far
    passes,         \* RetryFailedBatches passes started so far
    orderBook,      \* server: the order book
    mu,             \* server: the thread holding mu, or 0
    volumeData,     \* server: the volume entries kept by trackVolume
    totalVolume,    \* server: the volume total kept by trackVolume
    hs,             \* per handler thread: where its handleOrders call stands
    admitted,       \* history: the orders appended to the book, as admitted
    filledBid,      \* history: per admitted order, the fill quantities as bid
    filledAsk,      \* history: per admitted order, the fill quantities as ask
    produced,       \* history: the roots of the batches, as the matcher made them
    lastHanded,     \* history: the highest batch number SubmitBatch has got
    unsigned,       \* history: the batch numbers whose aggregation failed
    sfOrderBook,    \* single-fill server: the order book
    orderMux,       \* single-fill server: the goroutines holding orderMux.RLock
    gr,             \* per goroutine of the single-fill server: where it stands
    sfBatches,      \* history: per match of the single-fill server, the pair
                    \* in its fill and the orders it removed
    batchRoots,     \* BatchSettlement: root -> block number of its submission
    totalBatchesSubmitted,  \* BatchSettlement: the batch counter
    disputedRoots,  \* DisputeGame: root -> whether it has been disputed
    totalDisputes,  \* DisputeGame: the dispute counter
    blockNumber,    \* the chain: block.number
    lastTx,         \* history: the last transaction and how it ended
    succeeded       \* history: per root, the calls that did not revert

fnVars == <<fnOrders, fnMaxBatch, fnResult, fnPc>>

subVars ==
    <<maxRetries, backoffMS, failedBatches, failedMutex, chain, now, sub, rt,
      calls, passes>>

srvVars ==
    <<orderBook, mu, volumeData, totalVolume, hs, admitted, filledBid, filledAsk,
      produced, lastHanded, unsigned>>

sfVars == <<sfOrderBook, orderMux, gr, sfBatches>>

ethVars ==
    <<batchRoots, totalBatchesSubmitted, disputedRoots, totalDisputes,
      blockNumber, lastTx, succeeded>>

extVars == <<sfVars, ethVars>>

vars == <<fnVars, subVars, srvVars, extVars>>

NoResult ==
    [root |-> <<>>, fillsBytes |-> <<>>, remaining |-> <<>>, err |-> FALSE,
     events |-> <<>>, broke |-> FALSE, bids |-> <<>>, asks |-> <<>>,
     readded |-> <<>>]

\* MatchAndBatch as a function, left out of a specification.
FnIdle ==
    /\ fnOrders = <<>>
    /\ fnMaxBatch = 1
    /\ fnResult = NoResult
    /\ fnPc = "off"

\* ---------------------------------------------------------- the submitter

\* Threads that call SubmitBatch, and threads that call RetryFailedBatches.
Callers == {1, 2}

Retriers == {1}

\* BACKOFF_MS values tried: one below the floor of init(), the floor and the
\* default.
BackoffTried == {0, 50, 200}

\* failedMutex when no thread holds it.
Free == <<"free", 0>>

\* How one attemptSubmitBatch can end: an RPC call fails before or at the
\* broadcast, the mined transaction reverted, it was mined with success, or
\* it was broadcast and the wait for the receipt failed.
Outcomes == {"rpcError", "reverted", "mined", "waitTimeout"}

\* What the chain holds after an attempt on the batch with this root ended
\* this way: a mined transaction confirms the batch; one whose receipt was
\* not seen is broadcast and unconfirmed.
Broadcast(onChain, root, outcome) ==
    IF outcome = "mined" THEN onChain \cup {<<root, "confirmed">>}
    ELSE IF outcome = "waitTimeout" THEN onChain \cup {<<root, "unconfirmed">>}
    ELSE onChain

\* attemptSubmitBatch with the error of bind.WaitMined passed on.
attemptSubmitBatchWaitFails(root, who, attempt, outcome) ==
    IF outcome = "mined"
    THEN [err |-> FALSE, txHash |-> <<"tx", root, who, attempt>>]
    ELSE [err |-> TRUE, txHash |-> <<>>]

\* attemptSubmitBatch without the test of the receipt's status.
attemptSubmitBatchNoStatus(root, who, attempt, outcome) ==
    IF outcome \in {"mined", "waitTimeout", "reverted"}
    THEN [err |-> FALSE, txHash |-> <<"tx", root, who, attempt>>]
    ELSE [err |-> TRUE, txHash |-> <<>>]

\* attemptSubmitBatch: the error and the transaction hash it returns.  The
\* hash of the transaction that attempt number `attempt` of `who` broadcast
\* is taken as unique to it.
attemptSubmitBatch(root, who, attempt, outcome) ==
    IF outcome \in {"mined", "waitTimeout"}
    THEN [err |-> FALSE, txHash |-> <<"tx", root, who, attempt>>]
    ELSE [err |-> TRUE, txHash |-> <<>>]

\* The gas estimates the node answers eth_estimateGas with.
GasEstimates == {21001}

\* gasLimit := uint64(float64(gasEstimate) * 1.2): the conversion to uint64
\* drops the fraction.  (For an estimate below 2^53 the float64 product is
\* the whole number 1.2 * estimate when the estimate is a multiple of 5, and
\* is otherwise at least 0.2 away from a whole number.)
gasLimit(gasEstimate) == (gasEstimate * 12) \div 10

\* The gas estimate and the gas limit of the transaction an attempt that
\* ended this way had made; none when an RPC call failed.
GasOf(outcome, gasEstimate) ==
    IF outcome = "rpcError" THEN <<>> ELSE <<gasEstimate, gasLimit(gasEstimate)>>

\* The test with <= in place of <: one attempt too many.
MoreAttemptsMutant(attempt) == attempt <= maxRetries

\* The test "attempt < maxRetries" that decides on another round.
MoreAttempts(attempt) == attempt < maxRetries

\* An exponential back-off: the base doubled with every attempt.
backoffDurationMutant(attempt) == backoffMS * 2 ^ (attempt - 1)

\* backoffDuration in milliseconds: time.Duration(backoffMS*attempt).
backoffDuration(attempt) == backoffMS * attempt

\* A FailedBatch whose signature field is filled from the fills.
FailedBatchMutant(root, fills, aggSig, time) ==
    [Root |-> root, Fills |-> fills, Sig |-> fills, Timestamp |-> time,
     Attempts |-> maxRetries]

\* The FailedBatch that SubmitBatch enqueues.
FailedBatch(root, fills, aggSig, time) ==
    [Root |-> root, Fills |-> fills, Sig |-> aggSig, Timestamp |-> time,
     Attempts |-> maxRetries]

\* A thread not in SubmitBatch.  errs is the history of the call: the err
\* each of its attempts returned; outcome is how the attempt that has just
\* returned ended ("none" once the call has moved on); slept lists the
\* back-off sleeps of the call in milliseconds; gas is the gas estimate and
\* the gas limit of the transaction of the attempt that has just returned.
NoCall ==
    [pc |-> "idle", root |-> <<>>, fills |-> <<>>, aggSig |-> <<>>,
     attempt |-> 0, errs |-> <<>>, outcome |-> "none", slept |-> <<>>,
     txHash |-> <<>>, err |-> FALSE, gas |-> <<>>]

\* A thread not in RetryFailedBatches.  gas is as in NoCall; failedAll is
\* the number of snapshot entries whose attempts of this pass all failed.
NoPass ==
    [pc |-> "idle", batchesToRetry |-> <<>>, i |-> 0, attempt |-> 0,
     successfulIndices |-> <<>>, successCount |-> 0, failCount |-> 0,
     err |-> FALSE, gas |-> <<>>, failedAll |-> 0]

\* init() with a floor of 0 for BACKOFF_MS.
initFatalMutant == maxRetries < 1 \/ backoffMS < 0

\* init() ends the process with log.Fatalf on a MAX_RETRIES below 1 or a
\* BACKOFF_MS below 50: nothing of the program runs after that.
initFatal == maxRetries < 1 \/ backoffMS < 50

\* The submitter when init() has read MAX_RETRIES and BACKOFF_MS, before
\* any call.
SubInit ==
    /\ maxRetries \in 0..MaxRetriesTried
    /\ backoffMS \in BackoffTried
    /\ failedBatches = <<>>
    /\ failedMutex = Free
    /\ chain = {}
    /\ now = 0
    /\ sub = [p \in Callers |-> NoCall]
    /\ rt = [r \in Retriers |-> NoPass]
    /\ calls = 0
    /\ passes = 0

\* The submitter left out of a specification.
SubIdle ==
    /\ maxRetries = 1
    /\ backoffMS = 200
    /\ failedBatches = <<>>
    /\ failedMutex = Free
    /\ chain = {}
    /\ now = 0
    /\ sub = [p \in Callers |-> NoCall]
    /\ rt = [r \in Retriers |-> NoPass]
    /\ calls = 0
    /\ passes = 0

\* Whether thread p is outside SubmitBatch.
NotInCall(p) == sub[p].pc \in {"idle", "returned"}

\* SubmitBatch is entered with (root, fills, aggSig) and calls
\* attemptSubmitBatch: from here until the attempt returns, its RPC calls to
\* the chain node are under way.
SubmitBegin(p, root, fills, aggSig) ==
    /\ ~initFatal
    /\ NotInCall(p)
    /\ calls' = calls + 1
    /\ sub' = [sub EXCEPT ![p] = [NoCall EXCEPT !.pc = "rpc", !.root = root,
                                  !.fills = fills, !.aggSig = aggSig,
                                  !.attempt = 1]]

\* The back-off sleep is over: the loop of SubmitBatch calls
\* attemptSubmitBatch again.
SubmitSend(p) ==
    /\ sub[p].pc = "sleep"
    /\ sub' = [sub EXCEPT ![p].pc = "rpc", ![p].outcome = "none",
                          ![p].gas = <<>>]
    /\ UNCHANGED <<extVars, fnVars, srvVars, maxRetries, backoffMS, chain, failedBatches,
                   failedMutex, now, rt, calls, passes>>

\* The attempt returns: SubmitBatch returns on success, sleeps the back-off
\* when attempts are left, or leaves the loop.
SubmitAttempt(p) ==
    /\ sub[p].pc = "rpc"
    /\ \E outcome \in Outcomes, gasEstimate \in GasEstimates :
         LET res == attemptSubmitBatch(sub[p].root, p, sub[p].attempt, outcome)
             c == [sub[p] EXCEPT !.errs = Append(@, res.err),
                                 !.outcome = outcome,
                                 !.gas = GasOf(outcome, gasEstimate)]
         IN  /\ chain' = Broadcast(chain, sub[p].root, outcome)
             /\ sub' = [sub EXCEPT ![p] =
                 IF ~res.err
                 THEN [c EXCEPT !.pc = "returned", !.txHash = res.txHash,
                                !.err = FALSE]
                 ELSE IF MoreAttempts(sub[p].attempt)
                 THEN [c EXCEPT !.pc = "sleep", !.attempt = @ + 1,
                                !.slept = Append(@, backoffDuration(sub[p].attempt))]
                 ELSE [c EXCEPT !.pc = "enqueue"]]
    /\ UNCHANGED <<extVars, fnVars, srvVars, maxRetries, backoffMS, failedBatches,
                   failedMutex, now, rt, calls, passes>>

\* All attempts failed: failedMutex.Lock().
SubmitLock(p) ==
    /\ sub[p].pc = "enqueue"
    /\ failedMutex = Free
    /\ failedMutex' = <<"submit", p>>
    /\ sub' = [sub EXCEPT ![p].pc = "locked", ![p].outcome = "none",
                          ![p].gas = <<>>]
    /\ UNCHANGED <<extVars, fnVars, srvVars, maxRetries, backoffMS, chain, failedBatches, now,
                   rt, calls, passes>>

\* The batch goes to the tail of the queue, the mutex is released and
\* SubmitBatch returns the error.
SubmitEnqueue(p) ==
    /\ sub[p].pc = "locked"
    /\ failedBatches' = Append(failedBatches,
           FailedBatch(sub[p].root, sub[p].fills, sub[p].aggSig, now))
    /\ failedMutex' = Free
    /\ now' = now + 1
    /\ sub' = [sub EXCEPT ![p].pc = "returned", ![p].err = TRUE]
    /\ UNCHANGED <<extVars, fnVars, srvVars, maxRetries, backoffMS, chain, rt, calls, passes>>

RECURSIVE RemoveSuccessfulMutant(_, _)
RECURSIVE RemoveSuccessful(_, _)
\* The removal with the index taken as a position counted from 1.
RemoveSuccessfulMutant(queue, indices) ==
    IF indices = <<>> THEN queue
    ELSE LET idx == indices[Len(indices)]
             rest == SubSeq(indices, 1, Len(indices) - 1)
         IN  IF idx < Len(queue)
             THEN RemoveSuccessfulMutant(SubSeq(queue, 1, idx - 1) \o
                                         SubSeq(queue, idx + 1, Len(queue)), rest)
             ELSE RemoveSuccessfulMutant(queue, rest)

\* removal of the successful indices, last first, each only if it is still
\* an index of the queue.
RemoveSuccessful(queue, indices) ==
    IF indices = <<>> THEN queue
    ELSE LET idx == indices[Len(indices)]
             rest == SubSeq(indices, 1, Len(indices) - 1)
         IN  IF idx < Len(queue)
             THEN RemoveSuccessful(SubSeq(queue, 1, idx) \o
                                   SubSeq(queue, idx + 2, Len(queue)), rest)
             ELSE RemoveSuccessful(queue, rest)

\* RetryFailedBatches is entered by the lowest-numbered thread that is not
\* in a pass: failedMutex.Lock().
RetryLock(r) ==
    /\ ~initFatal
    /\ rt[r].pc \in {"idle", "returned"}
    /\ \A q \in Retriers : q < r => rt[q].pc \notin {"idle", "returned"}
    /\ passes < MaxPasses
    /\ failedMutex = Free
    /\ failedMutex' = <<"retry", r>>
    /\ passes' = passes + 1
    /\ rt' = [rt EXCEPT ![r] = [NoPass EXCEPT !.pc = "snapshot"]]
    /\ UNCHANGED <<extVars, fnVars, srvVars, maxRetries, backoffMS, chain, failedBatches, now,
                   sub, calls>>

\* RetryFailedBatches up to its snapshot: nil at once on an empty queue; the
\* mutex is released either way, and the loop calls attemptSubmitBatch on
\* the first entry of the snapshot.
RetryBegin(r) ==
    /\ rt[r].pc = "snapshot"
    /\ failedMutex' = Free
    /\ rt' = [rt EXCEPT ![r] =
           IF Len(failedBatches) = 0
           THEN [NoPass EXCEPT !.pc = "returned"]
           ELSE [NoPass EXCEPT !.pc = "rpc", !.batchesToRetry = failedBatches,
                               !.attempt = 1]]
    /\ UNCHANGED <<extVars, fnVars, srvVars, maxRetries, backoffMS, chain, failedBatches, now,
                   sub, calls, passes>>

\* The back-off sleep of the pass is over: attemptSubmitBatch is called on
\* batchesToRetry[i] again.
RetrySend(r) ==
    /\ rt[r].pc = "sleep"
    /\ rt' = [rt EXCEPT ![r].pc = "rpc", ![r].gas = <<>>]
    /\ UNCHANGED <<extVars, fnVars, srvVars, maxRetries, backoffMS, chain, failedBatches,
                   failedMutex, now, sub, calls, passes>>

\* The test after the attempts on entry i, without its second half.
entryFailedMutant(successfulIndices, i) == Len(successfulIndices) = 0

\* The test after the attempts on entry i that counts it as failed:
\* len(successfulIndices) == 0 || successfulIndices[len-1] != i.
entryFailed(successfulIndices, i) ==
    \/ Len(successfulIndices) = 0
    \/ successfulIndices[Len(successfulIndices)] # i

\* The pass after the attempts on entry i, with the successful indices as
\* they now are: failCount is brought up to date and the loop goes on.
NextEntry(pass, successfulIndices) ==
    [pass EXCEPT !.successfulIndices = successfulIndices,
                 !.failCount = IF entryFailed(successfulIndices, pass.i)
                               THEN @ + 1 ELSE @,
                 !.i = @ + 1, !.attempt = 1,
                 !.pc = IF pass.i + 1 = Len(pass.batchesToRetry)
                        THEN "remove" ELSE "rpc"]

\* What one attempt that returned res leaves of the pass: a success is
\* noted and ends the entry, a failure is followed by the back-off sleep or,
\* after the last attempt, ends the entry.  failedAll counts the entries
\* whose maxRetries attempts all returned an error.
AfterAttempt(pass, res) ==
    IF ~res.err
    THEN NextEntry([pass EXCEPT !.successCount = @ + 1],
                   Append(pass.successfulIndices, pass.i))
    ELSE IF MoreAttempts(pass.attempt)
    THEN [pass EXCEPT !.attempt = @ + 1, !.pc = "sleep"]
    ELSE NextEntry([pass EXCEPT !.failedAll =
                        IF pass.attempt = maxRetries THEN @ + 1 ELSE @],
                   pass.successfulIndices)

\* The attempt on batchesToRetry[i] returns; the pass moves on to the next
\* entry after a success or after the last failed attempt.
RetryAttempt(r) ==
    /\ rt[r].pc = "rpc"
    /\ \E outcome \in Outcomes, gasEstimate \in GasEstimates :
         /\ chain' = Broadcast(chain, rt[r].batchesToRetry[rt[r].i + 1].Root,
                               outcome)
         /\ rt' = [rt EXCEPT ![r] =
                AfterAttempt([rt[r] EXCEPT !.gas = GasOf(outcome, gasEstimate)],
                             attemptSubmitBatch(
                                 rt[r].batchesToRetry[rt[r].i + 1].Root,
                                 <<"retry", r>>, rt[r].attempt, outcome))]
    /\ UNCHANGED <<extVars, fnVars, srvVars, maxRetries, backoffMS, failedBatches,
                   failedMutex, now, sub, calls, passes>>

\* After the loop: with successes the pass takes failedMutex for the
\* removal; without any it returns its error at once.
RetryLockRemove(r) ==
    /\ rt[r].pc = "remove"
    /\ IF Len(rt[r].successfulIndices) > 0
       THEN /\ failedMutex = Free
            /\ failedMutex' = <<"retry", r>>
            /\ rt' = [rt EXCEPT ![r].pc = "removing"]
       ELSE /\ rt' = [rt EXCEPT ![r].pc = "returned",
                                ![r].err = rt[r].failCount > 0]
            /\ UNCHANGED failedMutex
    /\ UNCHANGED <<extVars, fnVars, srvVars, maxRetries, backoffMS, chain, failedBatches, now,
                   sub, calls, passes>>

\* The removal phase of the pass and its return value.
RetryRemove(r) ==
    /\ rt[r].pc = "removing"
    /\ failedBatches' = RemoveSuccessful(failedBatches, rt[r].successfulIndices)
    /\ failedMutex' = Free
    /\ rt' = [rt EXCEPT ![r].pc = "returned", ![r].err = rt[r].failCount > 0]
    /\ UNCHANGED <<extVars, fnVars, srvVars, maxRetries, backoffMS, chain, now, sub, calls,
                   passes>>

\* ClearFailedBatches: the queue emptied under failedMutex.
ClearFailedBatches ==
    /\ ~initFatal
    /\ failedMutex = Free
    /\ Len(failedBatches) > 0
    /\ failedBatches' = <<>>
    /\ UNCHANGED <<extVars, fnVars, srvVars, maxRetries, backoffMS, chain, failedMutex, now,
                   sub, rt, calls, passes>>

\* ------------------------------------------------------------ the server

\* The batch size limit handleOrders passes to the matcher.
ServerMaxBatch == 100

\* An order as decoded from the wire; id is the position at which it entered
\* (not a field of the code's Order, and not hashed).
Order(id, price, ts, make, take) ==
    [id |-> id, Maker |-> "m", TakerAsset |-> "a", Signature |-> "s",
     Price |-> price, Timestamp |-> ts, MakeAmount |-> make, TakeAmount |-> take]

\* validateOrder: TRUE when it returns nil.  An empty amount string is one
\* that does not parse.
validateOrder(order) ==
    /\ order.Maker # ""
    /\ order.Price > 0
    /\ order.Timestamp > 0
    /\ order.Signature # ""
    /\ order.TakerAsset # ""
    /\ order.MakeAmount # BadAmount /\ ~fle(order.MakeAmount, 0)
    /\ order.TakeAmount # BadAmount /\ ~fle(order.TakeAmount, 0)

\* AggregateBLS without operator keys: the mock signature over the root.
AggregateBLS(root) == <<"mock_bls_signature_", root>>

\* The two ways the call "aggSig, err := matcher.AggregateBLS(root)" can
\* end for handleOrders: a signature with a nil error, or an error.
AggregateOutcomes == {"signed", "noValidSignature"}

\* mu.Lock() goes through when no thread holds mu (0).
muLock(holder) == holder = 0

\* mu handed on locked into the part of handleOrders after the matcher run.
muUnlockMutant(p) == p

\* mu.Unlock() at the end of the matcher's critical section.
muUnlock(p) == 0

\* A handler thread at rest.  batch is the number of the batch its matcher
\* run produced (0: none).
NoHandler ==
    [pc |-> "idle", price |-> 0, root |-> <<>>, fillsBytes |-> <<>>,
     batch |-> 0, status |-> 0]

SrvInit ==
    /\ orderBook = <<>>
    /\ mu = 0
    /\ volumeData = <<>>
    /\ totalVolume = 0
    /\ hs = [p \in Callers |-> NoHandler]
    /\ admitted = <<>>
    /\ filledBid = <<>>
    /\ filledAsk = <<>>
    /\ produced = <<>>
    /\ lastHanded = 0
    /\ unsigned = {}

\* (price, timestamp, makeAmount, takeAmount) of the orders clients post:
\* orders that cross, an amount that does not parse, the amount "NaN", and
\* a price, a timestamp and amounts that are not positive.
SrvShapes ==
    {<<2, 1, 20, 18>>, <<1, 1, 12, 4>>, <<3, 1, 8, 20>>,
     <<2, 1, BadAmount, 10>>, <<3, 1, NaNAmount, 20>>,
     <<0, 1, 20, 18>>, <<2, 0, 20, 18>>, <<2, 1, 0, 10>>, <<2, 1, 20, 0 - 10>>}

\* The string field a posted order leaves empty, if any.
SrvBlanks == {"Maker", "TakerAsset", "Signature"}

\* What clients post: every shape with its string fields filled in, and one
\* shape with each string field in turn left empty.
SrvPosts ==
    {<<f, "none">> : f \in SrvShapes} \cup {<<<<2, 1, 20, 18>>, b>> : b \in SrvBlanks}

\* The order json.Decode makes of a post; id is the number of the next
\* admission.
Request(id, post) ==
    IF post[2] = "none"
    THEN Order(id, post[1][1], post[1][2], post[1][3], post[1][4])
    ELSE [Order(id, post[1][1], post[1][2], post[1][3], post[1][4])
            EXCEPT ![post[2]] = ""]

\* handleOrders on the decoded order o up to the end of its first critical
\* section: an order that fails validateOrder is answered 400; any other is
\* appended to the book under mu.
Post(p, o) ==
    IF validateOrder(o)
    THEN /\ muLock(mu)
         /\ orderBook' = Append(orderBook, o)
         /\ admitted' = Append(admitted, o)
         /\ filledBid' = Append(filledBid, 0)
         /\ filledAsk' = Append(filledAsk, 0)
         /\ hs' = [hs EXCEPT ![p] =
                 [NoHandler EXCEPT !.pc = "appended", !.price = o.Price]]
    ELSE /\ hs' = [hs EXCEPT ![p] = [NoHandler EXCEPT !.status = 400]]
         /\ UNCHANGED <<orderBook, admitted, filledBid, filledAsk>>

\* A POST /orders request is served by the lowest-numbered thread at rest.
HandleAppend(p) ==
    /\ ~initFatal
    /\ hs[p].pc = "idle"
    /\ \A q \in Callers : q < p => hs[q].pc # "idle"
    /\ Len(admitted) < MaxAdmit
    /\ \E post \in SrvPosts : Post(p, Request(Len(admitted) + 1, post))
    /\ UNCHANGED <<extVars, fnVars, subVars, mu, volumeData, totalVolume, produced,
                   lastHanded, unsigned>>

\* The second mu.Lock() of handleOrders.
HandleLock(p) ==
    /\ hs[p].pc = "appended"
    /\ muLock(mu)
    /\ mu' = p
    /\ hs' = [hs EXCEPT ![p].pc = "matching"]
    /\ UNCHANGED <<extVars, fnVars, subVars, orderBook, volumeData, totalVolume,
                   admitted, filledBid, filledAsk, produced, lastHanded, unsigned>>

RECURSIVE SumQty(_, _, _)
\* The quantities of the events in which order id was the bid (or the ask).
SumQty(events, id, asBid) ==
    IF events = <<>> THEN 0
    ELSE LET e == events[Len(events)]
             hit == IF asBid THEN e.bid.id = id ELSE e.ask.id = id
         IN  fadd(SumQty(SubSeq(events, 1, Len(events) - 1), id, asBid),
                  IF hit THEN e.qty ELSE 0)

\* trackVolume: one entry appended, the oldest dropped beyond 24 entries.
trackVolume(vol, price, quantity) ==
    LET data == Append(vol.data, [Volume |-> quantity,
                                  Value |-> fmul(price, quantity)])
    IN  [total |-> fadd(vol.total, quantity),
         data |-> IF Len(data) > 24 THEN Tail(data) ELSE data]

RECURSIVE TrackFills(_, _, _)
\* trackVolume for each fill of the batch in turn, at the posted order's price.
TrackFills(vol, events, price) ==
    IF events = <<>> THEN vol
    ELSE TrackFills(trackVolume(vol, price, Head(events).qty), Tail(events), price)

\* What handleOrders does with the matcher's result res while it holds mu:
\* the book is replaced by the returned remaining and, when there is a
\* batch, the volume of its fills is tracked.
StoreMatch(p, res) ==
    LET batch == ~res.err /\ Len(res.fillsBytes) > 0
        vol == IF batch
               THEN TrackFills([total |-> totalVolume, data |-> volumeData],
                               res.events, hs[p].price)
               ELSE [total |-> totalVolume, data |-> volumeData]
    IN  /\ orderBook' = res.remaining
        /\ filledBid' = [id \in 1..Len(admitted) |->
                           fadd(filledBid[id], SumQty(res.events, id, TRUE))]
        /\ filledAsk' = [id \in 1..Len(admitted) |->
                           fadd(filledAsk[id], SumQty(res.events, id, FALSE))]
        /\ volumeData' = vol.data
        /\ totalVolume' = vol.total
        /\ produced' = IF batch THEN Append(produced, res.root) ELSE produced
        /\ hs' = [hs EXCEPT ![p] =
               IF batch
               THEN [@ EXCEPT !.pc = "sign", !.root = res.root,
                              !.fillsBytes = res.fillsBytes,
                              !.batch = Len(produced) + 1]
               ELSE [@ EXCEPT !.pc = "respond"]]

\* The second critical section: MatchAndBatch on the book, the book replaced
\* by the returned remaining, the volume tracked, mu released.
HandleMatch(p) ==
    /\ hs[p].pc = "matching"
    /\ StoreMatch(p, MatchAndBatch(orderBook, ServerMaxBatch))
    /\ mu' = muUnlock(p)
    /\ UNCHANGED <<extVars, fnVars, subVars, admitted, lastHanded, unsigned>>

\* Outside the mutex: the signature is aggregated and, unless that failed,
\* SubmitBatch is entered; a failed aggregation is logged.
HandleSign(p) ==
    /\ hs[p].pc = "sign"
    /\ \E outcome \in AggregateOutcomes :
         IF outcome = "signed"
         THEN /\ SubmitBegin(p, hs[p].root, hs[p].fillsBytes, AggregateBLS(hs[p].root))
              /\ hs' = [hs EXCEPT ![p].pc = "submit"]
              /\ lastHanded' = IF hs[p].batch > lastHanded
                               THEN hs[p].batch ELSE lastHanded
              /\ UNCHANGED unsigned
         ELSE /\ hs' = [hs EXCEPT ![p].pc = "respond"]
              /\ unsigned' = unsigned \cup {hs[p].batch}
              /\ UNCHANGED <<sub, calls, lastHanded>>
    /\ UNCHANGED <<extVars, fnVars, maxRetries, backoffMS, chain, failedBatches,
                   failedMutex, now, rt, passes, orderBook, mu, volumeData,
                   totalVolume, admitted, filledBid, filledAsk, produced>>

\* SubmitBatch has returned (its result is only logged), or there was
\* nothing to submit: the 200 response is written and the thread is free.
HandleRespond(p) ==
    /\ \/ hs[p].pc = "respond"
       \/ hs[p].pc = "submit" /\ sub[p].pc = "returned"
    /\ hs' = [hs EXCEPT ![p] = [NoHandler EXCEPT !.status = 200]]
    /\ sub' = [sub EXCEPT ![p] = NoCall]
    /\ UNCHANGED <<extVars, fnVars, maxRetries, backoffMS, chain, failedBatches,
                   failedMutex, now, rt, calls, passes, orderBook, mu,
                   volumeData, totalVolume, admitted, filledBid, filledAsk,
                   produced, lastHanded, unsigned>>

\* ------------------------------------------------ the single-fill server

\* handleOrderSubmission starts one goroutine for every order it admits.
Goroutines == 1..MaxAdmit

\* Prices (0: refused by validateOrder) and timestamps posted to it.
SinglePrices == 0..2

SingleTimes == 1..2

\* A goroutine that has not been started.  maker and taker are the ids of
\* orders[0] and orders[1] of its MatchAndBatch() call.
NoGoroutine == [pc |-> "none", maker |-> 0, taker |-> 0]

SingleInit ==
    /\ sfOrderBook = <<>>
    /\ orderMux = {}
    /\ gr = [g \in Goroutines |-> NoGoroutine]
    /\ sfBatches = <<>>

\* The single-fill server, left out of a specification.
SingleIdle ==
    /\ sfOrderBook = <<>>
    /\ orderMux = {}
    /\ gr = <<>>
    /\ sfBatches = <<>>

\* orderMux.Lock() goes through when no goroutine holds the read lock.  (The
\* write lock is taken and released within one step, so no step finds it
\* held.)
orderMuxLock == orderMux = {}

\* handleOrderSubmission: an order that validateOrder refuses is answered
\* with 400; any other is appended under orderMux.Lock(), its goroutine is
\* started and 200 is answered.  (validateOrder of this server makes the
\* tests of the multi-fill server's.)
handleOrderSubmission(g, price, ts) ==
    /\ gr[g].pc = "none"
    /\ \A h \in Goroutines : h < g => gr[h].pc # "none"
    /\ IF validateOrder(Order(g, price, ts, 10, 10))
       THEN /\ orderMuxLock
            /\ sfOrderBook' = Append(sfOrderBook, Order(g, price, ts, 10, 10))
            /\ gr' = [gr EXCEPT ![g].pc = "started"]
       ELSE UNCHANGED <<sfOrderBook, gr>>
    /\ UNCHANGED <<fnVars, subVars, srvVars, ethVars, orderMux, sfBatches>>

\* MatchAndBatch() begins: orderMux.RLock().
GoRLock(g) ==
    /\ gr[g].pc = "started"
    /\ orderMux' = orderMux \cup {g}
    /\ gr' = [gr EXCEPT ![g].pc = "rlocked"]
    /\ UNCHANGED <<fnVars, subVars, srvVars, ethVars, sfOrderBook, sfBatches>>

\* The two orders MatchAndBatch() pairs: the first two of the copy of the
\* book sorted by descending price, then ascending timestamp.
TopTwo(book) ==
    [maker |-> sortOrders(book)[1].id, taker |-> sortOrders(book)[2].id]

\* MatchAndBatch() under the read lock: with fewer than two orders it
\* returns "" (the deferred RUnlock runs and the goroutine logs and ends);
\* otherwise it builds the fill of the top two, the root and the bytes, and
\* gives the read lock up.  (The amounts of a validated order parse.)
GoMatch(g) ==
    /\ gr[g].pc = "rlocked"
    /\ IF Len(sfOrderBook) < 2
       THEN gr' = [gr EXCEPT ![g].pc = "done"]
       ELSE gr' = [gr EXCEPT ![g] = [pc |-> "matched",
                                       maker |-> TopTwo(sfOrderBook).maker,
                                       taker |-> TopTwo(sfOrderBook).taker]]
    /\ orderMux' = orderMux \ {g}
    /\ UNCHANGED <<fnVars, subVars, srvVars, ethVars, sfOrderBook, sfBatches>>

\* What "orderBook = orderBook[2:]" leaves when the book has two orders.
RemoveFirstTwo(book) ==
    IF Len(book) >= 2 THEN SubSeq(book, 3, Len(book)) ELSE book

\* The ids of the orders that RemoveFirstTwo drops.
FirstTwo(book) ==
    IF Len(book) >= 2 THEN <<book[1].id, book[2].id>> ELSE <<>>

\* MatchAndBatch() removes under orderMux.Lock(): the first two orders of
\* the book as it is now.
GoRemove(g) ==
    /\ gr[g].pc = "matched"
    /\ orderMuxLock
    /\ sfOrderBook' = RemoveFirstTwo(sfOrderBook)
    /\ sfBatches' = Append(sfBatches, [maker |-> gr[g].maker, taker |-> gr[g].taker,
                                        removed |-> FirstTwo(sfOrderBook)])
    /\ gr' = [gr EXCEPT ![g].pc = "removed"]
    /\ UNCHANGED <<fnVars, subVars, srvVars, ethVars, orderMux>>

\* MatchAndBatch() takes the read lock again and returns (the deferred
\* RUnlock gives it up); the goroutine signs and submits the batch, logs the
\* outcome and ends.
GoReturn(g) ==
    /\ gr[g].pc = "removed"
    /\ gr' = [gr EXCEPT ![g].pc = "done"]
    /\ UNCHANGED <<fnVars, subVars, srvVars, ethVars, sfOrderBook, orderMux,
                   sfBatches>>

SingleNext ==
    \/ \E g \in Goroutines, price \in SinglePrices, ts \in SingleTimes :
           handleOrderSubmission(g, price, ts)
    \/ \E g \in Goroutines : GoRLock(g)
    \/ \E g \in Goroutines : GoMatch(g)
    \/ \E g \in Goroutines : GoRemove(g)
    \/ \E g \in Goroutines : GoReturn(g)

\* ---------------------------------------------------------- the contracts

\* The highest block.number reached.
MaxBlock == 2

\* keccak256 is taken as injective, and a hash is written as a number.  The
\* orders shown in a dispute differ in price and timestamp only.
DisputeOrders ==
    {[price |-> 1, timestamp |-> 1], [price |-> 1, timestamp |-> 2],
     [price |-> 2, timestamp |-> 1]}

NoOrder == [price |-> 0, timestamp |-> 0]

\* _hashOrder: the Merkle leaf of an order (1, 2 and 3 for DisputeOrders).
hashOrder(order) == 2 * (order.price - 1) + order.timestamp

\* MerkleProof's hash of two nodes, the smaller one first.
hashPair(a, b) == IF a < b THEN 10 * a + b ELSE 10 * b + a

RECURSIVE processProof(_, _)
\* MerkleProof.processProof: the root rebuilt from a leaf and its proof.
processProof(proof, leaf) ==
    IF proof = <<>> THEN leaf
    ELSE processProof(Tail(proof), hashPair(leaf, Head(proof)))

\* MerkleProof.verify.
verify(proof, root, leaf) == processProof(proof, leaf) = root

\* The roots tried: the tree of one leaf, and the trees of leaves 1, 2 and
\* of leaves 2, 3.
EthRoots == {1, hashPair(1, 2), hashPair(2, 3)}

\* The proof bytes tried: bytes that abi.decode refuses, and for every pair
\* of orders the proofs of a tree of one leaf and of the tree of the pair.
DisputeProofs ==
    {[decodes |-> FALSE, orderA |-> NoOrder, orderB |-> NoOrder,
      proofA |-> <<>>, proofB |-> <<>>]}
    \cup UNION {[decodes : {TRUE}, orderA : {a}, orderB : {b},
                 proofA : {<<>>, <<hashOrder(b)>>}, proofB : {<<>>, <<hashOrder(a)>>}] :
                  a \in DisputeOrders, b \in DisputeOrders}

\* The aggSig bytes tried: bytes that abi.decode refuses, and certificates.
AggSigs ==
    {[decodes |-> FALSE, stakeSigned |-> 0, aggregateG1PublicKey |-> <<>>,
      aggregateSignature |-> <<>>]}
    \cup [decodes : {TRUE}, stakeSigned : 1..2, aggregateG1PublicKey : {<<>>, <<1>>},
          aggregateSignature : {<<>>, <<1>>}]

\* allocationManager.getCurrentTotalMagnitude(operatorSet) reverts, or its
\* result times QUORUM_THRESHOLD_BPS does not fit uint256.
StakeReverts == 0 - 1

\* What getCurrentTotalMagnitude is seen to return.
TotalStakes == {StakeReverts, 0, 3}

QUORUM_THRESHOLD_BPS == 6667

\* No transaction yet.
NoTx ==
    [fn |-> "none", root |-> 0, err |-> "", fills |-> <<>>, orderAIdx |-> 0,
     orderBIdx |-> 0, orderA |-> NoOrder, orderB |-> NoOrder]

\* The contracts as deployed: the deployment is mined in block 1 at the
\* earliest (the genesis block holds no transaction).
EthInit ==
    /\ batchRoots = [root \in EthRoots |-> 0]
    /\ totalBatchesSubmitted = 0
    /\ disputedRoots = [root \in EthRoots |-> FALSE]
    /\ totalDisputes = 0
    /\ blockNumber = 1
    /\ lastTx = NoTx
    /\ succeeded = [submitBatch |-> [root \in EthRoots |-> 0],
                    dispute |-> [root \in EthRoots |-> 0]]

\* The contracts, left out of a specification.
EthIdle ==
    /\ batchRoots = <<>>
    /\ totalBatchesSubmitted = 0
    /\ disputedRoots = <<>>
    /\ totalDisputes = 0
    /\ blockNumber = 0
    /\ lastTx = 0
    /\ succeeded = 0

\* _calculateSigningStake.
calculateSigningStake(certificate) == certificate.stakeSigned

\* _verifyBLSSignature: both the key and the signature are non-empty.
verifyBLSSignature(message, certificate) ==
    /\ Len(certificate.aggregateG1PublicKey) > 0
    /\ Len(certificate.aggregateSignature) > 0

\* _verifyBLSQuorum, for a total stake that was read.
verifyBLSQuorum(root, aggSig, totalStake) ==
    IF totalStake = 0 THEN FALSE
    ELSE IF ~aggSig.decodes THEN FALSE
    ELSE IF calculateSigningStake(aggSig) < (totalStake * QUORUM_THRESHOLD_BPS) \div 10000
         THEN FALSE
    ELSE verifyBLSSignature(root, aggSig)

\* isBatchSubmitted.
isBatchSubmitted(root) ==
    [submitted |-> batchRoots[root] # 0, blockNumber |-> batchRoots[root]]

\* submitBatch without the test for a root recorded before.
submitBatchErrorMutant(root, fills, aggSig, totalStake) ==
    IF Len(fills) = 0 THEN "EmptyFillsData"
    ELSE IF totalStake = StakeReverts THEN "Panic"
    ELSE IF ~verifyBLSQuorum(root, aggSig, totalStake) THEN "InvalidBLSSignature"
    ELSE ""

\* The error submitBatch reverts with ("": none).
submitBatchError(root, fills, aggSig, totalStake) ==
    IF Len(fills) = 0 THEN "EmptyFillsData"
    ELSE IF batchRoots[root] # 0 THEN "DuplicateBatchRoot"
    ELSE IF totalStake = StakeReverts THEN "Panic"
    ELSE IF ~verifyBLSQuorum(root, aggSig, totalStake) THEN "InvalidBLSSignature"
    ELSE ""

\* One submitBatch transaction.  A revert undoes every write and event.
submitBatch(root, fills, aggSig, totalStake) ==
    /\ lastTx' = [NoTx EXCEPT !.fn = "submitBatch", !.root = root, !.fills = fills,
                              !.err = submitBatchError(root, fills, aggSig, totalStake)]
    /\ IF submitBatchError(root, fills, aggSig, totalStake) = ""
       THEN /\ batchRoots' = [batchRoots EXCEPT ![root] = blockNumber]
            /\ totalBatchesSubmitted' = totalBatchesSubmitted + 1
            /\ succeeded' = [succeeded EXCEPT !.submitBatch[root] = @ + 1]
       ELSE UNCHANGED <<batchRoots, totalBatchesSubmitted, succeeded>>
    /\ UNCHANGED <<fnVars, subVars, srvVars, sfVars, disputedRoots, totalDisputes,
                   blockNumber>>

\* _isCorrectlyOrdered with the price comparison turned around.
isCorrectlyOrderedMutant(orderA, orderB) ==
    IF orderA.price # orderB.price THEN orderA.price <= orderB.price
    ELSE orderA.timestamp <= orderB.timestamp

\* _isCorrectlyOrdered.
isCorrectlyOrdered(orderA, orderB) ==
    IF orderA.price # orderB.price THEN orderA.price >= orderB.price
    ELSE orderA.timestamp <= orderB.timestamp

\* The error dispute reverts with ("": none).
disputeError(root, orderAIdx, orderBIdx, proof) ==
    IF orderAIdx >= orderBIdx THEN "InvalidOrderIndices"
    ELSE IF disputedRoots[root] THEN "RootAlreadyDisputed"
    ELSE IF ~isBatchSubmitted(root).submitted THEN "BatchRootNotFound"
    ELSE IF ~proof.decodes THEN "Panic"
    ELSE IF \/ ~verify(proof.proofA, root, hashOrder(proof.orderA))
            \/ ~verify(proof.proofB, root, hashOrder(proof.orderB))
         THEN "InvalidMerkleProof"
    ELSE IF isCorrectlyOrdered(proof.orderA, proof.orderB) THEN "OrdersCorrectlyOrdered"
    ELSE ""

\* One dispute transaction.  A revert undoes every write and event.
dispute(root, orderAIdx, orderBIdx, proof) ==
    /\ lastTx' = [NoTx EXCEPT !.fn = "dispute", !.root = root,
                              !.orderAIdx = orderAIdx, !.orderBIdx = orderBIdx,
                              !.orderA = proof.orderA, !.orderB = proof.orderB,
                              !.err = disputeError(root, orderAIdx, orderBIdx, proof)]
    /\ IF disputeError(root, orderAIdx, orderBIdx, proof) = ""
       THEN /\ disputedRoots' = [disputedRoots EXCEPT ![root] = TRUE]
            /\ totalDisputes' = totalDisputes + 1
            /\ succeeded' = [succeeded EXCEPT !.dispute[root] = @ + 1]
       ELSE UNCHANGED <<disputedRoots, totalDisputes, succeeded>>
    /\ UNCHANGED <<fnVars, subVars, srvVars, sfVars, batchRoots,
                   totalBatchesSubmitted, blockNumber>>

\* A block is mined.
MineBlock ==
    /\ blockNumber < MaxBlock
    /\ blockNumber' = blockNumber + 1
    /\ UNCHANGED <<fnVars, subVars, srvVars, sfVars, batchRoots,
                   totalBatchesSubmitted, disputedRoots, totalDisputes, lastTx,
                   succeeded>>

ChainNext ==
    \/ \E root \in EthRoots, fills \in {<<>>, <<1>>}, aggSig \in AggSigs,
          totalStake \in TotalStakes : submitBatch(root, fills, aggSig, totalStake)
    \/ \E root \in EthRoots, orderAIdx \in 0..1, orderBIdx \in {1},
          proof \in DisputeProofs : dispute(root, orderAIdx, orderBIdx, proof)
    \/ MineBlock

\* ------------------------------------------------- the server's behaviours

\* The server starts with the default BACKOFF_MS and a small MAX_RETRIES.
Init ==
    /\ FnIdle
    /\ SubInit
    /\ maxRetries = SrvRetriesTried
    /\ backoffMS = 200
    /\ SrvInit
    /\ SingleIdle
    /\ EthIdle

Next ==
    \/ \E p \in Callers : HandleAppend(p)
    \/ \E p \in Callers : HandleLock(p)
    \/ \E p \in Callers : HandleMatch(p)
    \/ \E p \in Callers : HandleSign(p)
    \/ \E p \in Callers : SubmitSend(p)
    \/ \E p \in Callers : SubmitAttempt(p)
    \/ \E p \in Callers : SubmitLock(p)
    \/ \E p \in Callers : SubmitEnqueue(p)
    \/ \E p \in Callers : HandleRespond(p)

Spec == Init /\ [][Next]_vars

\* ------------------------------------- the submitter driven by its callers

\* The lowest-numbered thread outside SubmitBatch calls it with the next
\* batch.
ClientSubmit(p) ==
    /\ calls < MaxCalls
    /\ \A q \in Callers : q < p => ~NotInCall(q)
    /\ LET root == <<"root", calls + 1>>
       IN  SubmitBegin(p, root, <<"fills", root>>, <<"mock_bls_signature_", root>>)
    /\ UNCHANGED <<extVars, fnVars, srvVars, maxRetries, backoffMS, chain, failedBatches,
                   failedMutex, now, rt, passes>>

SubmitInit == FnIdle /\ SubInit /\ SrvInit /\ SingleIdle /\ EthIdle

SubmitNext ==
    \/ \E p \in Callers : ClientSubmit(p)
    \/ \E p \in Callers : SubmitSend(p)
    \/ \E p \in Callers : SubmitAttempt(p)
    \/ \E p \in Callers : SubmitLock(p)
    \/ \E p \in Callers : SubmitEnqueue(p)
    \/ \E r \in Retriers : RetryLock(r)
    \/ \E r \in Retriers : RetryBegin(r)
    \/ \E r \in Retriers : RetrySend(r)
    \/ \E r \in Retriers : RetryAttempt(r)
    \/ \E r \in Retriers : RetryLockRemove(r)
    \/ \E r \in Retriers : RetryRemove(r)
    \/ ClearFailedBatches

SpecSubmit == SubmitInit /\ [][SubmitNext]_vars

\* ------------------------- a retry pass beside one SubmitBatch caller

\* The retry utility's passes and clears while one thread calls SubmitBatch.
PassNext ==
    \/ ClientSubmit(1)
    \/ SubmitSend(1)
    \/ SubmitAttempt(1)
    \/ SubmitLock(1)
    \/ SubmitEnqueue(1)
    \/ \E r \in Retriers : RetryLock(r)
    \/ \E r \in Retriers : RetryBegin(r)
    \/ \E r \in Retriers : RetrySend(r)
    \/ \E r \in Retriers : RetryAttempt(r)
    \/ \E r \in Retriers : RetryLockRemove(r)
    \/ \E r \in Retriers : RetryRemove(r)
    \/ ClearFailedBatches

\* Every thread goes on: an attempt that is under way returns, a sleep
\* ends, and a thread waiting for failedMutex gets it (sync.Mutex does not
\* starve a waiter).
PassFairness ==
    /\ WF_vars(SubmitSend(1)) /\ WF_vars(SubmitAttempt(1))
    /\ SF_vars(SubmitLock(1)) /\ WF_vars(SubmitEnqueue(1))
    /\ \A r \in Retriers :
          /\ WF_vars(RetryBegin(r)) /\ WF_vars(RetrySend(r))
          /\ WF_vars(RetryAttempt(r)) /\ SF_vars(RetryLockRemove(r))
          /\ WF_vars(RetryRemove(r))

SpecPass == SubmitInit /\ [][PassNext]_vars /\ PassFairness

\* --------------------------------------------- MatchAndBatch as a function

\* (price, timestamp, makeAmount, takeAmount) of the orders tried: three
\* prices, three timestamps at one price, amounts that leave 0, less than
\* 1e-8 and more than 1e-8 behind, and an amount that does not parse.
FnShapes ==
    {<<3, 1, 20, 10>>, <<3, 1, 7, 13>>,
     <<2, 1, 7, 13>>, <<2, 2, 20, 10>>, <<2, 2, 7, 13>>, <<2, 3, 20, 10>>,
     <<1, 1, 7, 13>>,
     <<2, 1, BadAmount, 0>>}

FnInputs ==
    UNION {{[k \in 1..n |-> Order(k, f[k][1], f[k][2], f[k][3], f[k][4])] :
              f \in [1..n -> FnShapes]} : n \in 0..MaxLen}

\* A book of thirteen orders: the first and the third at price 3, the
\* others at price 1, all with timestamp 1.
LongBook ==
    [k \in 1..13 |-> IF k \in {1, 3} THEN Order(k, 3, 1, 20, 10)
                                      ELSE Order(k, 1, 1, 7, 13)]

\* A book with amounts of at most 1e-8: the second bid offers 0.6e-8 and
\* the first ask takes 0.4e-8 of the first bid's 4e-8.
DustBook ==
    <<Order(1, 3, 1, 20, 10), Order(2, 3, 2, 3, 13),
      Order(3, 1, 1, 7, 2), Order(4, 1, 2, 7, 10)>>

\* Books with the amount "NaN" on the ask and on the bid.
NaNBooks ==
    {<<Order(1, 2, 1, 20, 10), Order(2, 1, 1, 10, NaNAmount)>>,
     <<Order(1, 2, 1, NaNAmount, 10), Order(2, 1, 1, 7, 13), Order(3, 1, 2, 7, 13)>>}

FnInit ==
    /\ fnOrders \in FnInputs \cup {LongBook, DustBook} \cup NaNBooks
    /\ fnMaxBatch \in 1..MaxBatchTried
    /\ fnResult = NoResult
    /\ fnPc = "call"
    /\ SubIdle
    /\ SrvInit
    /\ SingleIdle
    /\ EthIdle

\* One call of MatchAndBatch.
FnCall ==
    /\ fnPc = "call"
    /\ fnResult' = MatchAndBatch(fnOrders, fnMaxBatch)
    /\ fnPc' = "done"
    /\ UNCHANGED <<fnOrders, fnMaxBatch, subVars, srvVars, extVars>>

\* The caller keeps the returned remaining as its book and calls again.
FnAgain ==
    /\ fnPc = "done"
    /\ fnOrders' = fnResult.remaining
    /\ fnMaxBatch' \in 1..MaxBatchTried
    /\ fnResult' = NoResult
    /\ fnPc' = "call"
    /\ UNCHANGED <<subVars, srvVars, extVars>>

FnNext == FnCall \/ FnAgain

SpecFn == FnInit /\ [][FnNext]_vars

\* ------------------------------------- the single-fill server on its own

SingleServerInit == FnIdle /\ SubIdle /\ SrvInit /\ SingleInit /\ EthIdle

SpecSingle == SingleServerInit /\ [][SingleNext]_vars

\* ------------------------------------------------ the contracts' chain

ChainInit == FnIdle /\ SubIdle /\ SrvInit /\ SingleIdle /\ EthInit

SpecChain == ChainInit /\ [][ChainNext]_vars

\* ------------------------------------------------- claims about one run

Ran == fnPc = "done"

Ev == fnResult.events

Ids(s) == {s[k].id : k \in 1..Len(s)}

ValidAmount(a) == parseAmount(a).ok

\* The bid at position q of the run's bids cannot take the k-th fill: its
\* make amount is no positive number, or an earlier fill left it <= 1e-8.
BidGone(q, k) ==
    \/ ~ValidAmount(fnResult.bids[q].MakeAmount)
    \/ \E h \in 1..(k - 1) :
          Ev[h].bid.id = fnResult.bids[q].id /\ Ev[h].bidLeft <= Eps

AskGone(q, k) ==
    \/ ~ValidAmount(fnResult.asks[q].TakeAmount)
    \/ \E h \in 1..(k - 1) :
          Ev[h].ask.id = fnResult.asks[q].id /\ Ev[h].askLeft <= Eps

\* C2: every fill pairs a bid priced >= its ask; among bids of equal price,
\* and among asks of equal price, an order with a later timestamp is filled
\* only after every order with an earlier timestamp is exhausted.
C2_PriceTimePriority ==
    Ran =>
      \A k \in 1..Len(Ev) :
        /\ Ev[k].bid.Price >= Ev[k].ask.Price
        /\ \A q \in 1..Len(fnResult.bids) :
              (/\ fnResult.bids[q].Price = Ev[k].bid.Price
               /\ fnResult.bids[q].Timestamp < Ev[k].bid.Timestamp)
              => BidGone(q, k)
        /\ \A q \in 1..Len(fnResult.asks) :
              (/\ fnResult.asks[q].Price = Ev[k].ask.Price
               /\ fnResult.asks[q].Timestamp < Ev[k].ask.Timestamp)
              => AskGone(q, k)

\* A run in which a bid is filled after an equal-priced earlier bid, an ask
\* after an equal-priced earlier ask, and a bid crosses an ask of its price.
C2_Witness ==
    /\ Ran
    /\ \E k \in 1..Len(Ev), q \in 1..Len(fnResult.bids) :
          /\ fnResult.bids[q].Price = Ev[k].bid.Price
          /\ fnResult.bids[q].Timestamp < Ev[k].bid.Timestamp
          /\ ValidAmount(fnResult.bids[q].MakeAmount)
    /\ \E k \in 1..Len(Ev), q \in 1..Len(fnResult.asks) :
          /\ fnResult.asks[q].Price = Ev[k].ask.Price
          /\ fnResult.asks[q].Timestamp < Ev[k].ask.Timestamp
          /\ ValidAmount(fnResult.asks[q].TakeAmount)
    /\ \E k \in 1..Len(Ev) : Ev[k].bid.Price = Ev[k].ask.Price

\* C3: the asks are consumed in ascending price order: the first fill takes
\* the lowest-priced ask, and a higher-priced ask is filled only after every
\* lower-priced ask is exhausted.
C3_AsksAscending ==
    Ran =>
      \A k \in 1..Len(Ev) :
        \A q \in 1..Len(fnResult.asks) :
          fnResult.asks[q].Price < Ev[k].ask.Price => AskGone(q, k)

\* C4: a run emits at most max_batch fills.
C4_BatchBound == Ran => Len(fnResult.fillsBytes) <= fnMaxBatch

\* A run that stopped at max_batch although its remaining still crosses.
C4_Witness ==
    /\ Ran
    /\ Len(fnResult.fillsBytes) = fnMaxBatch
    /\ MatchAndBatch(fnResult.remaining, 1).fillsBytes # <<>>

Unchanged ==
    /\ fnResult.root = <<>>
    /\ fnResult.fillsBytes = <<>>
    /\ fnResult.remaining = fnOrders
    /\ ~fnResult.err

\* The upper half of the orders by price holds an order with a positive make
\* amount and the lower half one with a positive take amount.
CrossablePair ==
    /\ \E q \in 1..Len(fnResult.bids) : ValidAmount(fnResult.bids[q].MakeAmount)
    /\ \E q \in 1..Len(fnResult.asks) : ValidAmount(fnResult.asks[q].TakeAmount)

\* C5 as stated: nothing is matched when there are fewer than 2 orders or no
\* crossable pair; in particular two orders, the one meant as the bid priced
\* below the one meant as the ask, produce no fill and come back unchanged.
C5_NoCrossUnchanged ==
    Ran =>
      /\ (Len(fnOrders) < 2 \/ ~CrossablePair) => Unchanged
      /\ (/\ Len(fnOrders) = 2
          /\ fnOrders[1].Price < fnOrders[2].Price
          /\ ValidAmount(fnOrders[1].MakeAmount)
          /\ ValidAmount(fnOrders[2].TakeAmount))
         => Unchanged

\* C5 amended: the input comes back unchanged exactly when there are fewer
\* than 2 orders or one half of the median split holds no order with a
\* positive amount; prices never keep two orders apart, so two orders with
\* positive amounts always give one fill, the higher-priced one as the bid.
C5_Amended ==
    Ran =>
      /\ Unchanged <=> (Len(fnOrders) < 2 \/ ~CrossablePair)
      /\ (/\ Len(fnOrders) = 2
          /\ fnOrders[1].Price < fnOrders[2].Price
          /\ ValidAmount(fnOrders[1].TakeAmount)
          /\ ValidAmount(fnOrders[2].MakeAmount))
         => /\ Len(Ev) = 1
            /\ Ev[1].bid.id = 2
            /\ Ev[1].ask.id = 1

\* A run over at least 2 orders of which one half cannot be filled.
C5_Witness ==
    /\ Ran
    /\ Len(fnOrders) >= 2
    /\ ~CrossablePair
    /\ Unchanged

\* C6: after a run with fills every remaining bid has make_amount > 1e-8,
\* every remaining ask has take_amount > 1e-8, and no order that a fill left
\* with <= 1e-8 on its side is in remaining.
C6_RemainingAboveEps ==
    (Ran /\ Len(Ev) > 0) =>
      /\ \A r \in 1..Len(fnResult.remaining) :
            LET o == fnResult.remaining[r]
            IN  /\ o.id \in Ids(fnResult.bids) =>
                      (ValidAmount(o.MakeAmount) /\ o.MakeAmount > Eps)
                /\ o.id \in Ids(fnResult.asks) =>
                      (ValidAmount(o.TakeAmount) /\ o.TakeAmount > Eps)
      /\ \A k \in 1..Len(Ev) :
            /\ Ev[k].bidLeft <= Eps => Ev[k].bid.id \notin Ids(fnResult.remaining)
            /\ Ev[k].askLeft <= Eps => Ev[k].ask.id \notin Ids(fnResult.remaining)

\* A run that exhausts one order, leaves a partly filled one in remaining and
\* drops an untouched order whose amount is not above 1e-8.
C6_Witness ==
    /\ Ran
    /\ \E k \in 1..Len(Ev) : Ev[k].askLeft <= Eps
    /\ \E k \in 1..Len(Ev) :
          Ev[k].bidLeft > Eps /\ Ev[k].bid.id \in Ids(fnResult.remaining)
    /\ Len(fnResult.remaining) > 0

\* ---------------------------------------------- claims about the submitter

Range(s) == {s[k] : k \in 1..Len(s)}

\* Every one of max_retries attempts of the call failed.
AllFailed(c) ==
    /\ Len(c.errs) = maxRetries
    /\ \A h \in 1..Len(c.errs) : c.errs[h]

\* What a step of caller p's SubmitBatch does to the queue: the step that
\* returns the error appends one entry with the call's root, fills and
\* signature at the tail; every other step leaves the queue alone.
C7_Step(p) ==
    sub'[p] # sub[p] =>
      IF sub'[p].pc = "returned" /\ sub'[p].err
      THEN /\ AllFailed(sub[p])
           /\ Len(failedBatches') = Len(failedBatches) + 1
           /\ SubSeq(failedBatches', 1, Len(failedBatches)) = failedBatches
           /\ LET e == failedBatches'[Len(failedBatches')]
              IN  /\ e.Root = sub[p].root
                  /\ e.Fills = sub[p].fills
                  /\ e.Sig = sub[p].aggSig
      ELSE failedBatches' = failedBatches

\* C7: a SubmitBatch call whose max_retries attempts all failed appends
\* exactly one FailedBatch with its root, fills and signature at the tail of
\* the queue and returns an error; a call with a successful attempt leaves
\* the queue unchanged; SubmitBatch changes the queue in no other way.
\* (A configuration that init() refuses has no calls.)
C7_EnqueueOnFinalFailure ==
    /\ [][\A p \in Callers : C7_Step(p)]_vars
    /\ [](\A p \in Callers : ~initFatal =>
            /\ AllFailed(sub[p]) =>
                  (\/ sub[p].pc \in {"enqueue", "locked"}
                   \/ (sub[p].pc = "returned" /\ sub[p].err))
            /\ (sub[p].pc = "returned" /\ sub[p].err) => AllFailed(sub[p]))

\* A call that failed twice has returned its error and its batch is the last
\* entry of the queue.
C7_Witness ==
    \E p \in Callers :
      /\ maxRetries = 2
      /\ sub[p].pc = "returned"
      /\ sub[p].err
      /\ Len(failedBatches) = 2
      /\ failedBatches[2].Root = sub[p].root

\* C8: the attempts of a call come one after another; the call stops at the
\* first successful one and returns its transaction id; it never makes more
\* than max_retries attempts.
C8_StopsAtFirstSuccess ==
    \A p \in Callers :
      LET c == sub[p]
          n == Len(c.errs)
      IN  /\ n <= maxRetries
          /\ \A h \in 1..(n - 1) : c.errs[h]
          /\ c.pc \in {"sleep", "rpc"} =>
                (c.attempt = n + 1 /\ \A h \in 1..n : c.errs[h])
          /\ (c.pc = "returned" /\ ~c.err) =>
                (/\ n >= 1
                 /\ ~c.errs[n]
                 /\ c.txHash = <<"tx", c.root, p, n>>)
          /\ (c.pc = "returned" /\ c.err) => (AllFailed(c) /\ c.txHash = <<>>)

\* The chain rejected attempt 1 and accepted attempt 2: the call succeeded
\* on attempt 2.
C8_Witness ==
    \E p \in Callers :
      /\ sub[p].pc = "returned"
      /\ ~sub[p].err
      /\ Len(sub[p].errs) = 2
      /\ sub[p].errs[1]

RECURSIVE NotResubmitted(_, _)
\* Of the first n entries of the pass's snapshot, those the pass did not
\* resubmit successfully, in the snapshot's order.
NotResubmitted(pass, n) ==
    IF n = 0 THEN <<>>
    ELSE IF (n - 1) \in Range(pass.successfulIndices)
         THEN NotResubmitted(pass, n - 1)
         ELSE Append(NotResubmitted(pass, n - 1), pass.batchesToRetry[n])

\* The step that ends the removal phase of retrier r's pass.
Removes(r) == rt[r].pc = "removing" /\ rt'[r].pc = "returned"

\* The entries retrier r's pass resubmitted successfully.
Resubmitted(r) ==
    {rt[r].batchesToRetry[rt[r].successfulIndices[h] + 1] :
        h \in 1..Len(rt[r].successfulIndices)}

\* C9: the removal phase of a pass leaves exactly the entries of the queue
\* that the pass did not resubmit successfully, in their order: every
\* resubmitted entry is removed and every other entry is kept.
C9_QueueAfterPass ==
    [][\A r \in Retriers :
         Removes(r) =>
           failedBatches' =
             SelectSeq(failedBatches, LAMBDA e : e \notin Resubmitted(r))]_vars

\* The same for a pass during which nothing but enqueues touched the queue:
\* the snapshot is still the head of the queue when the removal starts.
UndisturbedPass ==
    [][\A r \in Retriers :
         (/\ Removes(r)
          /\ Len(failedBatches) >= Len(rt[r].batchesToRetry)
          /\ SubSeq(failedBatches, 1, Len(rt[r].batchesToRetry)) = rt[r].batchesToRetry)
         => failedBatches' =
              NotResubmitted(rt[r], Len(rt[r].batchesToRetry)) \o
              SubSeq(failedBatches, Len(rt[r].batchesToRetry) + 1, Len(failedBatches))]_vars

\* A pass over two entries has resubmitted the first, failed on the second
\* and left the second alone in the queue.
PassOverTwo ==
    \E r \in Retriers :
      /\ rt[r].pc = "returned"
      /\ Len(rt[r].batchesToRetry) = 2
      /\ rt[r].successfulIndices = <<0>>
      /\ rt[r].failCount = 1
      /\ failedBatches = <<rt[r].batchesToRetry[2]>>

\* C10: whatever overlaps a pass, every entry its removal phase takes out of
\* the queue is an entry the pass itself resubmitted successfully.
C10_RemovesOnlyResubmitted ==
    [][\A r \in Retriers :
         Removes(r) =>
           \A e \in Range(failedBatches) \ Range(failedBatches') :
             e \in Resubmitted(r)]_vars

\* ------------------------------------------- claims about the evolving book

\* What order id has left on each side, if it is still in the book.
InBook(id) == \E k \in 1..Len(orderBook) : orderBook[k].id = id
Left(id) == LET k == CHOOSE k \in 1..Len(orderBook) : orderBook[k].id = id
            IN  orderBook[k]

\* Order id has been filled on both sides over the runs so far.
FilledTwice(id) == filledBid[id] > 0 /\ filledAsk[id] > 0

\* C1: over successive runs on the evolving book, the fill
\* quantities an order gave as bid never sum to more than its original
\* makeAmount, those it gave as ask never to more than its original
\* takeAmount, and while it is in the book its amounts are exactly the
\* original ones minus those sums.
C1_MassConservation ==
    \A id \in 1..Len(admitted) :
        /\ filledBid[id] <= admitted[id].MakeAmount
        /\ filledAsk[id] <= admitted[id].TakeAmount
        /\ InBook(id) =>
             /\ Left(id).MakeAmount = admitted[id].MakeAmount - filledBid[id]
             /\ Left(id).TakeAmount = admitted[id].TakeAmount - filledAsk[id]

\* An amount with at most eight decimals.
EightDecimals(a) == a % Eps = 0

\* How far the rounding to eight decimals lets the book drift: the sums
\* exceed the original amounts by less than 1e-8 and the amounts left differ
\* from original minus sum by less than 1e-8; for an order whose amount has
\* at most eight decimals both are exact.
RoundingDrift ==
    \A id \in 1..Len(admitted) :
        LET o == admitted[id]
            dMake == IF InBook(id)
                     THEN Left(id).MakeAmount - (o.MakeAmount - filledBid[id]) ELSE 0
            dTake == IF InBook(id)
                     THEN Left(id).TakeAmount - (o.TakeAmount - filledAsk[id]) ELSE 0
        IN  /\ filledBid[id] < o.MakeAmount + Eps
            /\ filledAsk[id] < o.TakeAmount + Eps
            /\ dMake < Eps /\ 0 - dMake < Eps
            /\ dTake < Eps /\ 0 - dTake < Eps
            /\ EightDecimals(o.MakeAmount) =>
                 filledBid[id] <= o.MakeAmount /\ dMake = 0
            /\ EightDecimals(o.TakeAmount) =>
                 filledAsk[id] <= o.TakeAmount /\ dTake = 0

\* An order was filled as bid in one run and as ask in another, and is
\* still in the book with less than it came with on both sides.
FilledOnBothSides ==
    \E id \in 1..Len(admitted) :
        /\ FilledTwice(id)
        /\ InBook(id)
        /\ Left(id).MakeAmount < admitted[id].MakeAmount
        /\ Left(id).TakeAmount < admitted[id].TakeAmount

\* --------------------------------------- claims about the submit attempts

\* The call of p has just seen its latest attempt end this way.
Ended(p, outcome) == sub[p].outcome = outcome

\* No entry of the failed queue holds the batch of p's call.
NotQueued(p) == \A e \in Range(failedBatches) : e.Root # sub[p].root

\* C16: when the transaction of an attempt was broadcast and the wait for
\* its mining ended without a receipt, the attempt counts as a success:
\* SubmitBatch returns that transaction's id and no error, the call makes no
\* further attempt, and the batch is not put on the failed queue.
C16_WaitWithoutReceiptSucceeds ==
    /\ [](\A p \in Callers :
            Ended(p, "waitTimeout") =>
              /\ sub[p].pc = "returned"
              /\ ~sub[p].err
              /\ sub[p].txHash = <<"tx", sub[p].root, p, Len(sub[p].errs)>>
              /\ sub[p].attempt = Len(sub[p].errs)
              /\ NotQueued(p))
    /\ [][\A p \in Callers :
            Ended(p, "waitTimeout") =>
              \/ sub'[p] = sub[p]
              \/ sub'[p].root # sub[p].root /\ Len(sub'[p].errs) = 0]_vars

\* Attempt 1 failed, the transaction of attempt 2 was broadcast and the wait
\* for it gave no receipt: the call has returned and the batch is on the
\* chain unconfirmed.
C16_Witness ==
    \E p \in Callers :
      /\ Ended(p, "waitTimeout")
      /\ Len(sub[p].errs) = 2
      /\ sub[p].pc = "returned"
      /\ <<sub[p].root, "unconfirmed">> \in chain

\* C17: when the transaction of an attempt was mined with status revert, the
\* attempt has failed: the call goes on to the next attempt if one is left,
\* and otherwise puts the batch on the failed queue and returns the error.
C17_RevertIsFailure ==
    /\ [](\A p \in Callers :
            LET c == sub[p]
                n == Len(c.errs)
            IN  Ended(p, "reverted") =>
                  /\ c.errs[n]
                  /\ c.txHash = <<>>
                  /\ IF n < maxRetries
                     THEN c.pc = "sleep" /\ c.attempt = n + 1
                     ELSE c.pc = "enqueue")
    /\ [][\A p \in Callers :
            (sub[p].pc \in {"enqueue", "locked"} /\ sub'[p] # sub[p]) =>
              \/ sub'[p].pc = "locked" /\ failedBatches' = failedBatches
              \/ /\ sub'[p].pc = "returned" /\ sub'[p].err
                 /\ failedBatches' =
                      Append(failedBatches,
                             FailedBatch(sub[p].root, sub[p].fills, sub[p].aggSig,
                                         now))]_vars

\* With two attempts allowed, the second attempt of a call was mined with
\* status revert after a first one failed: the call is about to enqueue.
C17_Witness ==
    \E p \in Callers :
      /\ maxRetries = 2
      /\ Ended(p, "reverted")
      /\ Len(sub[p].errs) = 2
      /\ sub[p].pc = "enqueue"

\* The failed attempts of the call that were followed by another attempt.
FollowedUp(c) == {k \in 1..Len(c.errs) : c.errs[k] /\ k < maxRetries}

AwaitsMatch(p) == hs[p].pc \in {"appended", "matching"}

\* The step is q's append of an admitted order.
Appends(q) == hs[q].pc = "idle" /\ hs'[q].pc = "appended"

\* The step is q's matcher run.
RunsMatcher(q) == hs[q].pc = "matching" /\ hs'[q].pc # "matching"

\* C12: admission is one critical section: the append of the admitted order,
\* the matcher run on the book and the overwrite of the book happen under
\* one hold of the book mutex, so no other admission's append or matcher run
\* occurs between an order's append and the matcher run its admission
\* triggers.
C12_OneCriticalSection ==
    [][\A p, q \in Callers :
         (p # q /\ AwaitsMatch(p)) => (~Appends(q) /\ ~RunsMatcher(q))]_vars

\* Both handlers have appended their orders and neither has run the matcher.
BothAppended == \A p \in Callers : hs[p].pc = "appended"

\* The step hands p's batch to SubmitBatch.
Hands(p) == hs[p].pc = "sign" /\ hs'[p].pc = "submit"

\* C13: batches are handed to SubmitBatch in the order in which the matcher
\* produced them, also when several admissions are handled concurrently: a
\* batch is never handed over after one the matcher produced later.
C13_SubmitInProductionOrder ==
    [][\A p \in Callers : Hands(p) => hs[p].batch > lastHanded]_vars

\* The threads with a submit attempt in flight.
InFlight == {p \in Callers : sub[p].pc = "rpc"}

\* C14: submissions are serialized per sender account: at any time at most
\* one submit attempt is in flight.
C14_OneAttemptInFlight == Cardinality(InFlight) <= 1

\* Handler p is in a signature aggregation or in a chain RPC call of a
\* submit attempt; retrier r is in a chain RPC call.
HandlerInIO(p) == hs[p].pc = "sign" \/ sub[p].pc = "rpc"
RetrierInIO(r) == rt[r].pc = "rpc"

Held(k) == \E p \in Callers : hs[p].batch = k /\ hs[p].pc \in {"sign", "submit"}

\* The chain has a mined transaction for the root; the chain got a
\* transaction for it whose mining was not seen.
Confirmed(root) == <<root, "confirmed">> \in chain
Unconfirmed(root) == <<root, "unconfirmed">> \in chain

\* The failed queue has an entry for the root.
Queued(root) == \E e \in Range(failedBatches) : e.Root = root

PosIn(s, id) == CHOOSE k \in 1..Len(s) : s[k].id = id

\* The orders at positions a < b of the input have the same price and the
\* same timestamp.
Tied(a, b) ==
    /\ a < b
    /\ fnOrders[a].Price = fnOrders[b].Price
    /\ fnOrders[a].Timestamp = fnOrders[b].Timestamp

\* C20: two orders with equal price and equal timestamp keep their input
\* order in the matcher's priority order: on the side both are on, the one
\* that came first in the input stands first, and the later one is filled
\* only after the earlier one was filled, unless the earlier one has no
\* valid amount.
C20_TiesKeepInputOrder ==
    Ran =>
      \A a, b \in 1..Len(fnOrders) :
        Tied(a, b) =>
          LET x == fnOrders[a]
              y == fnOrders[b]
          IN  /\ (x.id \in Ids(fnResult.bids) /\ y.id \in Ids(fnResult.bids)) =>
                   /\ PosIn(fnResult.bids, x.id) < PosIn(fnResult.bids, y.id)
                   /\ \A k \in 1..Len(Ev) :
                        (Ev[k].bid.id = y.id /\ ValidAmount(x.MakeAmount)) =>
                          \E h \in 1..(k - 1) : Ev[h].bid.id = x.id
              /\ (x.id \in Ids(fnResult.asks) /\ y.id \in Ids(fnResult.asks)) =>
                   /\ PosIn(fnResult.asks, x.id) < PosIn(fnResult.asks, y.id)
                   /\ \A k \in 1..Len(Ev) :
                        (Ev[k].ask.id = y.id /\ ValidAmount(x.TakeAmount)) =>
                          \E h \in 1..(k - 1) : Ev[h].ask.id = x.id

\* On a book of at most maxInsertion orders, which sort.Slice sorts by
\* insertion, tied orders keep their input order.
TiesKeepInputOrderShortBook ==
    Len(fnOrders) <= maxInsertion => C20_TiesKeepInputOrder

\* Two tied bids of a short book were both filled, the earlier one first.
TiedBidsFilledInOrder ==
    /\ Ran
    /\ Len(fnOrders) <= maxInsertion
    /\ \E a, b \in 1..Len(fnOrders) :
         /\ Tied(a, b)
         /\ \E h, k \in 1..Len(Ev) :
              h < k /\ Ev[h].bid.id = fnOrders[a].id /\ Ev[k].bid.id = fnOrders[b].id


\* --------------------------------------------- claims about the admission

\* make_amount > 0 (or take_amount > 0) of a parsed amount string.
PositiveAmount(amountStr) ==
    amountStr # BadAmount /\ ~IsNaN(amountStr) /\ amountStr > 0

\* The invariants of an order admitted to the book: string fields
\* non-empty, both amounts parse and are > 0, price > 0, timestamp > 0.
MeetsInvariants(o) ==
    /\ o.Maker # "" /\ o.TakerAsset # "" /\ o.Signature # ""
    /\ PositiveAmount(o.MakeAmount) /\ PositiveAmount(o.TakeAmount)
    /\ o.Price > 0 /\ o.Timestamp > 0

\* Thread p takes up a request carrying the order o.
Posts(p, o) == hs[p].pc = "idle" /\ Post(p, o)

\* Thread p answers 400 and is at rest again; the book and the batches are
\* as before and no SubmitBatch call has begun.
Rejected(p) ==
    /\ hs'[p] = [NoHandler EXCEPT !.status = 400]
    /\ sub'[p] = sub[p]
    /\ UNCHANGED <<orderBook, admitted, produced, lastHanded, unsigned, calls>>

\* C21: an order that breaks one of the admission invariants (an empty
\* string field, an amount that does not parse or is not > 0, a price or a
\* timestamp <= 0) is answered 400, the book stays as it is and no matcher
\* run, signing or submission follows.
C21_InvalidRejected ==
    [][\A p \in Callers : \A post \in SrvPosts :
          (Posts(p, Request(Len(admitted) + 1, post))
             /\ ~MeetsInvariants(Request(Len(admitted) + 1, post)))
          => Rejected(p)]_vars

\* Every post other than the amount "NaN" that breaks an invariant is
\* answered 400.
InvalidButNaNRejected ==
    [][\A p \in Callers : \A post \in SrvPosts :
          (Posts(p, Request(Len(admitted) + 1, post))
             /\ ~MeetsInvariants(Request(Len(admitted) + 1, post))
             /\ ~IsNaN(post[1][3]))
          => Rejected(p)]_vars

\* Thread p has not yet written the response to the request it serves.
Unanswered(p) == hs[p].pc \in {"appended", "matching", "sign", "submit", "respond"}

\* The batch that p's admission triggered is being signed or submitted.
BatchInHand(p) ==
    \/ hs[p].pc = "sign"
    \/ hs[p].pc = "submit" /\ sub[p].pc \in {"rpc", "sleep", "enqueue", "locked"}

\* C22: the response to an admission does not wait for the signing or the
\* submission of the batch the admission triggered: no request is still
\* unanswered while its batch is being signed or submitted.
C22_ResponseDoesNotWait ==
    \A p \in Callers : ~(Unanswered(p) /\ BatchInHand(p))

\* --------------------------------------------- claims about the gas limit

\* ceil(1.2 * estimate).
RoundedUp(gasEstimate) == (gasEstimate * 12 + 9) \div 10

\* C23: the gas limit of every transaction a submit attempt makes is the
\* node's estimate times 1.2, rounded up to the next integer.
C23_GasLimitRoundedUp ==
    /\ \A p \in Callers :
         sub[p].gas # <<>> => sub[p].gas[2] = RoundedUp(sub[p].gas[1])
    /\ \A r \in Retriers :
         rt[r].gas # <<>> => rt[r].gas[2] = RoundedUp(rt[r].gas[1])

\* The gas limit is never below the estimate times 1.2 with the fraction
\* dropped, and never above the estimate times 1.2.
GasLimitTruncated ==
    \A p \in Callers :
      sub[p].gas # <<>> =>
        /\ 10 * sub[p].gas[2] <= 12 * sub[p].gas[1]
        /\ 10 * (sub[p].gas[2] + 1) > 12 * sub[p].gas[1]

\* ------------------------------------ claims about RetryFailedBatches' result

\* C24: a pass returns no error exactly when every entry of its snapshot was
\* resubmitted successfully (on an empty queue it returns nil without an
\* attempt); otherwise the count in its error is the number of snapshot
\* entries whose max_retries attempts all failed.
C24_PassResult ==
    \A r \in Retriers :
      rt[r].pc = "returned" =>
        /\ Len(rt[r].successfulIndices) + rt[r].failedAll
             = Len(rt[r].batchesToRetry)
        /\ ~rt[r].err <=> rt[r].failedAll = 0
        /\ rt[r].err => rt[r].failCount = rt[r].failedAll
        /\ rt[r].batchesToRetry = <<>> => rt[r].attempt = 0 /\ rt[r].gas = <<>>

\* A pass over two entries has returned an error that counts one entry: the
\* first entry was resubmitted and the second failed every attempt.
C24_Witness ==
    \E r \in Retriers :
      /\ rt[r].pc = "returned"
      /\ Len(rt[r].batchesToRetry) = 2
      /\ rt[r].successfulIndices = <<0>>
      /\ rt[r].err /\ rt[r].failCount = 1

\* ------------------------------------------ claims about the configuration

\* A SubmitBatch call of p has made its last attempt.
CallOver(p) == sub[p].pc \in {"enqueue", "locked", "returned"}

\* The call of p so far is one attempt without a back-off sleep.
OneAttempt(p) ==
    /\ sub[p].pc \in {"idle", "rpc"} \/ CallOver(p)
    /\ sub[p].attempt <= 1
    /\ sub[p].slept = <<>>
    /\ CallOver(p) => Len(sub[p].errs) = 1

AllPositive ==
    \A k \in 1..Len(fnOrders) :
      PositiveAmount(fnOrders[k].MakeAmount) /\ PositiveAmount(fnOrders[k].TakeAmount)

\* C26: every bid of a run is priced at or above every ask of that run; a
\* run over at least 2 orders that all carry positive make and take amounts
\* emits at least one fill and never ends at the "bid price < ask price"
\* exit, whatever max_batch >= 1 it is given.
C26_PositiveOrdersAlwaysFill ==
    Ran =>
      /\ \A p \in 1..Len(fnResult.bids) : \A q \in 1..Len(fnResult.asks) :
            fnResult.bids[p].Price >= fnResult.asks[q].Price
      /\ ~fnResult.broke
      /\ (Len(fnOrders) >= 2 /\ AllPositive) => Len(fnResult.fillsBytes) >= 1

\* A run that matched a bid and an ask of equal price, over orders that all
\* carry positive amounts.
C26_Witness ==
    /\ Ran
    /\ Len(fnOrders) >= 2
    /\ AllPositive
    /\ \E k \in 1..Len(Ev) : Ev[k].bid.Price = Ev[k].ask.Price

\* ---------------------------------------------------------------------
\* claims about the orders a run leaves alone
\* ---------------------------------------------------------------------

\* The input order took part in no fill of the run.
Untouched(o) == \A k \in 1..Len(Ev) : Ev[k].bid.id # o.id /\ Ev[k].ask.id # o.id

\* The order is in remaining exactly as it was put in.
Returned_Unchanged(o) ==
    \E r \in 1..Len(fnResult.remaining) : fnResult.remaining[r] = o

\* C27: when a run produces fills, every input order with positive amounts
\* that took part in no fill is returned in remaining with all its fields
\* unchanged.
C27_UntouchedReturned ==
    (Ran /\ Len(Ev) > 0) =>
      \A k \in 1..Len(fnOrders) :
        (/\ PositiveAmount(fnOrders[k].MakeAmount)
         /\ PositiveAmount(fnOrders[k].TakeAmount)
         /\ Untouched(fnOrders[k]))
        => Returned_Unchanged(fnOrders[k])

\* Both amounts of the order are positive and the amount of its side in the
\* run, make_amount for a bid and take_amount for an ask, is above 1e-8.
AboveEps(o) ==
    /\ PositiveAmount(o.MakeAmount)
    /\ PositiveAmount(o.TakeAmount)
    /\ o.id \in Ids(fnResult.bids) => o.MakeAmount > Eps
    /\ o.id \in Ids(fnResult.asks) => o.TakeAmount > Eps

\* C27 amended: when a run produces fills, every input order with positive
\* amounts whose amount on its side of the run is above 1e-8 and that took
\* part in no fill is returned in remaining with all its fields unchanged.
C27_Amended ==
    (Ran /\ Len(Ev) > 0) =>
      \A k \in 1..Len(fnOrders) :
        (AboveEps(fnOrders[k]) /\ Untouched(fnOrders[k]))
        => Returned_Unchanged(fnOrders[k])

\* A run that stopped at max_batch and left a bid and an ask alone, both
\* with amounts above 1e-8.
C27_Witness ==
    /\ Ran
    /\ Len(Ev) = fnMaxBatch
    /\ \E k \in 1..Len(fnOrders) :
          /\ AboveEps(fnOrders[k]) /\ Untouched(fnOrders[k])
          /\ fnOrders[k].id \in Ids(fnResult.bids)
    /\ \E k \in 1..Len(fnOrders) :
          /\ AboveEps(fnOrders[k]) /\ Untouched(fnOrders[k])
          /\ fnOrders[k].id \in Ids(fnResult.asks)

\* ---------------------------------------------------------------------
\* claims about the hashes of a fill
\* ---------------------------------------------------------------------

\* The input order with this id.
InputOrder(id) == CHOOSE o \in {fnOrders[k] : k \in 1..Len(fnOrders)} : o.id = id

\* The fills before the k-th that matched the same bid, the same ask.
EarlierOfBid(k) == {l \in 1..(k - 1) : Ev[l].bid.id = Ev[k].bid.id}
EarlierOfAsk(k) == {l \in 1..(k - 1) : Ev[l].ask.id = Ev[k].ask.id}

Latest(S) == CHOOSE l \in S : \A x \in S : x <= l

\* The bid and the ask of the k-th fill as the fills before it left them:
\* the input order, its amount rewritten by the latest earlier fill.
StandingBid(k) ==
    IF EarlierOfBid(k) = {} THEN InputOrder(Ev[k].bid.id)
    ELSE [InputOrder(Ev[k].bid.id) EXCEPT
            !.MakeAmount = formatAmount(Ev[Latest(EarlierOfBid(k))].bidLeft)]
StandingAsk(k) ==
    IF EarlierOfAsk(k) = {} THEN InputOrder(Ev[k].ask.id)
    ELSE [InputOrder(Ev[k].ask.id) EXCEPT
            !.TakeAmount = formatAmount(Ev[Latest(EarlierOfAsk(k))].askLeft)]

\* The hashes of every fill are those of its two orders as they stood.
HashesOfStanding ==
    \A k \in 1..Len(fnResult.fillsBytes) :
      /\ fnResult.fillsBytes[k].MakerHash = orderHash(StandingBid(k))
      /\ fnResult.fillsBytes[k].TakerHash = orderHash(StandingAsk(k))

\* The orders of remaining that took part in a fill of the run.
Touched == {r \in 1..Len(fnResult.remaining) : ~Untouched(fnResult.remaining[r])}

\* C28: the hashes of a fill are those of the bid and the ask as they stand
\* immediately before the fill, reductions by earlier fills included; so two
\* fills of the same bid within one run carry different maker_hash values,
\* and a partially filled order goes into the next run with a hash other
\* than the one it came with.
C28_HashesFollowAmounts ==
    (Ran /\ ~fnResult.err) =>
      /\ HashesOfStanding
      /\ \A k, l \in 1..Len(fnResult.fillsBytes) :
            (k < l /\ Ev[k].bid.id = Ev[l].bid.id) =>
              fnResult.fillsBytes[k].MakerHash # fnResult.fillsBytes[l].MakerHash
      /\ \A r \in Touched :
            orderHash(fnResult.remaining[r])
              # orderHash(InputOrder(fnResult.remaining[r].id))

\* C28 amended: the hashes of a fill are those of the bid and the ask as
\* they stand immediately before the fill; two fills of the same bid carry
\* the same maker_hash exactly when the fills between them left the bid's
\* make_amount, as written with eight decimals, what it was, and a partially
\* filled order keeps its hash exactly when its written amounts did not
\* change.
C28_Amended ==
    (Ran /\ ~fnResult.err) =>
      /\ HashesOfStanding
      /\ \A k, l \in 1..Len(fnResult.fillsBytes) :
            (k < l /\ Ev[k].bid.id = Ev[l].bid.id) =>
              (fnResult.fillsBytes[k].MakerHash = fnResult.fillsBytes[l].MakerHash
                 <=> Ev[k].bid.MakeAmount = Ev[l].bid.MakeAmount)
      /\ \A r \in Touched :
            (orderHash(fnResult.remaining[r])
               = orderHash(InputOrder(fnResult.remaining[r].id)))
            <=> /\ fnResult.remaining[r].MakeAmount
                     = InputOrder(fnResult.remaining[r].id).MakeAmount
                /\ fnResult.remaining[r].TakeAmount
                     = InputOrder(fnResult.remaining[r].id).TakeAmount

\* A run in which one bid was filled twice with different maker hashes and
\* a partially filled order went on into remaining with a changed hash.
C28_Witness ==
    /\ Ran
    /\ ~fnResult.err
    /\ \E k, l \in 1..Len(fnResult.fillsBytes) :
          /\ k < l
          /\ Ev[k].bid.id = Ev[l].bid.id
          /\ fnResult.fillsBytes[k].MakerHash # fnResult.fillsBytes[l].MakerHash
    /\ \E r \in Touched :
          orderHash(fnResult.remaining[r])
            # orderHash(InputOrder(fnResult.remaining[r].id))

\* ---------------------------------------------------------------------
\* claims about the re-add branches
\* ---------------------------------------------------------------------

\* How often the order with this id occurs in remaining.
Occurrences(id) ==
    Cardinality({r \in 1..Len(fnResult.remaining) : fnResult.remaining[r].id = id})

\* C29: the branches that re-add bids[i-1] and asks[j-1] after the crossing
\* loop never add an order; remaining holds each input order at most once
\* and is never longer than the input.
C29_ReAddNeverAdds ==
    Ran =>
      /\ fnResult.readded = <<>>
      /\ \A k \in 1..Len(fnOrders) : Occurrences(fnOrders[k].id) <= 1
      /\ Len(fnResult.remaining) <= Len(fnOrders)

\* A run that advanced past a bid and past an ask, so that both re-add
\* branches were entered, and that returned orders in remaining.
C29_Witness ==
    /\ Ran
    /\ \E k \in 1..Len(Ev) : Exhausted(Ev[k].bidLeft)
    /\ \E k \in 1..Len(Ev) : Exhausted(Ev[k].askLeft)
    /\ fnResult.readded = <<>>
    /\ Len(fnResult.remaining) >= 2

\* ---------------------------------------------------------------------
\* claims about the progress of the crossing loop
\* ---------------------------------------------------------------------

\* C30: every fill leaves at most 1e-8 on the matched side of at least one
\* of its two orders, and the loop advances past that order; so a run over
\* n orders emits at most n - 1 fills.
C30_EveryFillExhausts ==
    Ran =>
      /\ \A k \in 1..Len(Ev) :
            \/ /\ Exhausted(Ev[k].bidLeft)
               /\ \A l \in (k + 1)..Len(Ev) : Ev[l].i > Ev[k].i
            \/ /\ Exhausted(Ev[k].askLeft)
               /\ \A l \in (k + 1)..Len(Ev) : Ev[l].j > Ev[k].j
      /\ Len(fnOrders) >= 2 => Len(fnResult.fillsBytes) <= Len(fnOrders) - 1

\* No amount of the input is "NaN".
NoNaN ==
    \A k \in 1..Len(fnOrders) :
      ~IsNaN(fnOrders[k].MakeAmount) /\ ~IsNaN(fnOrders[k].TakeAmount)

\* The same over the inputs whose amounts are all numbers.
EveryFillExhaustsNumbers == NoNaN => C30_EveryFillExhausts

\* ---------------------------------------------------------------------
\* claims about the book under concurrent admissions
\* ---------------------------------------------------------------------

\* How often the admitted order id is in the book.
TimesInBook(id) == Cardinality({k \in 1..Len(orderBook) : orderBook[k].id = id})

\* A fill of the run res left order id with at most 1e-8 on its side.
ExhaustedIn(res, id) ==
    \E k \in 1..Len(res.events) :
      \/ res.events[k].bid.id = id /\ fle(formatAmount(res.events[k].bidLeft), Eps)
      \/ res.events[k].ask.id = id /\ fle(formatAmount(res.events[k].askLeft), Eps)

\* The step is a matcher run of handler p, and every order that it takes
\* out of the book was exhausted by its fills.
RunLosesNothing(p) ==
    RunsMatcher(p) =>
      \A id \in 1..Len(admitted) :
        (InBook(id) /\ TimesInBook(id)' = 0) =>
          ExhaustedIn(MatchAndBatch(orderBook, ServerMaxBatch), id)

\* The step keeps every order of the book that it is not a matcher run on,
\* and an appended order is in the book.
OthersKeepBook ==
    (\A p \in Callers : ~RunsMatcher(p)) =>
      \A id \in 1..Len(admitted') :
        TimesInBook(id)' = IF id > Len(admitted) THEN 1 ELSE TimesInBook(id)

\* C31: under every interleaving of handleOrders calls no admitted order is
\* lost or duplicated: an admitted order is in the book at most once, it
\* enters the book when it is admitted, and it leaves the book only in a
\* matcher run whose fills exhausted it.
C31_NoOrderLost ==
    [][/\ \A id \in 1..Len(admitted') : TimesInBook(id)' <= 1
       /\ OthersKeepBook
       /\ \A p \in Callers : RunLosesNothing(p)]_vars

\* Orders leave the book in matcher runs only, and never occur twice.
NoOrderDuplicated ==
    [][/\ \A id \in 1..Len(admitted') : TimesInBook(id)' <= 1
       /\ OthersKeepBook]_vars

\* ---------------------------------------------------------------------
\* claims about what a retry pass does to the queue
\* ---------------------------------------------------------------------

\* The step is one of retrier r's pass.
PassStep(r) == rt'[r] # rt[r]

\* The entries of the snapshot that the pass of r has failed on again.
FailedAgain(r) ==
    {rt[r].batchesToRetry[k] :
        k \in {h \in 1..Len(rt[r].batchesToRetry) :
                 (h - 1) \notin Range(rt[r].successfulIndices)}}

InPass(r) == rt[r].pc \in {"rpc", "sleep", "remove", "removing"}

\* The roots of the snapshot of r's pass.
SnapshotRoots(r) ==
    {rt[r].batchesToRetry[k].Root : k \in 1..Len(rt[r].batchesToRetry)}

\* The step is an attempt of r's pass.
PassAttempt(r) == rt[r].pc = "rpc" /\ rt'[r] # rt[r]

\* The number of an attempt among the n * max_retries the loops of a pass
\* can make: attempt number attempt on the entry of index i.
AttemptNo(pass) == pass.i * maxRetries + pass.attempt

\* C33: a pass makes at most n * max_retries submit attempts, n being the
\* length of its snapshot: its attempts have increasing numbers from 1 to
\* n * max_retries; every attempt is on an entry of the snapshot, whatever
\* was enqueued since; and the pass returns when every attempt returns.
C33_PassIsBounded ==
    /\ [][\A r \in Retriers :
            PassAttempt(r) =>
              /\ 1 <= AttemptNo(rt[r])
              /\ AttemptNo(rt[r]) <= Len(rt[r].batchesToRetry) * maxRetries
              /\ AttemptNo(rt'[r]) > AttemptNo(rt[r])
              /\ rt'[r].batchesToRetry = rt[r].batchesToRetry
              /\ \A t \in chain' \ chain : t[1] \in SnapshotRoots(r)]_vars
    /\ \A r \in Retriers : InPass(r) ~> rt[r].pc = "returned"

\* A pass over a snapshot of one entry has made all its max_retries
\* attempts, more than one, and returned, while the queue has grown to two.
C33_Witness ==
    \E r \in Retriers :
      /\ rt[r].pc = "returned"
      /\ Len(rt[r].batchesToRetry) = 1
      /\ maxRetries > 1
      /\ rt[r].failedAll = 1
      /\ Len(failedBatches) = 2

\* ---------------------------------------------------------------------
\* claims about MatchAndBatch's error
\* ---------------------------------------------------------------------

\* C34: MatchAndBatch returns a nil error on every input: the Merkle
\* builder, which fails on an empty fill list only, is not what ends a run
\* without fills; and the returned root is non-empty exactly when the
\* returned fill bytes are.
C34_NeverAnError ==
    Ran =>
      /\ ~fnResult.err
      /\ fnResult.root # <<>> <=> fnResult.fillsBytes # <<>>
      /\ fnResult.fillsBytes # <<>> =>
           fnResult.root = computeMerkleRoot(fnResult.fillsBytes).root
      /\ Len(Ev) = 0 => fnResult.root = <<>>

\* A run with exactly one fill, and with it a root, and no error.
C34_Witness ==
    /\ Ran
    /\ Len(fnOrders) >= 2
    /\ Len(fnResult.fillsBytes) = 1
    /\ fnResult.root # <<>>
    /\ ~fnResult.err

\* ---------------------------------------------------------------------
\* claims about an order meeting its own copy
\* ---------------------------------------------------------------------

\* The input is two orders with the same bytes in every field, both valid.
TwoCopies ==
    /\ Len(fnOrders) = 2
    /\ orderHash(fnOrders[1]) = orderHash(fnOrders[2])
    /\ AllPositive
    /\ validateOrder(fnOrders[1])

\* C35: nothing keeps an order from being matched against a copy of itself:
\* of two byte-identical valid orders the run takes one as the bid and the
\* other as the ask, pairs them and emits one fill, whose maker_hash equals
\* its taker_hash.
C35_MatchedWithItsCopy ==
    (Ran /\ TwoCopies) =>
      /\ Len(fnResult.bids) = 1 /\ Len(fnResult.asks) = 1
      /\ fnResult.bids[1].id # fnResult.asks[1].id
      /\ Len(fnResult.fillsBytes) = 1
      /\ Ev[1].bid.id = fnResult.bids[1].id
      /\ Ev[1].ask.id = fnResult.asks[1].id
      /\ fnResult.fillsBytes[1].MakerHash = fnResult.fillsBytes[1].TakerHash
      /\ fnResult.fillsBytes[1].Quantity
           = formatAmount(min(fnOrders[1].MakeAmount, fnOrders[1].TakeAmount))

\* Two copies of one order have been matched and the copy taken as the bid
\* goes on into the next run.
C35_Witness ==
    /\ Ran
    /\ TwoCopies
    /\ Len(fnResult.fillsBytes) = 1
    /\ fnResult.fillsBytes[1].MakerHash = fnResult.fillsBytes[1].TakerHash
    /\ Len(fnResult.remaining) = 1
    /\ fnResult.remaining[1].id = fnResult.bids[1].id

\* ---------------------------------------------------------------------
\* claims about orders the matcher cannot use
\* ---------------------------------------------------------------------

\* An amount string that does not parse, or that parses to a number <= 0.
Unusable(amountStr) ==
    amountStr = BadAmount \/ (~IsNaN(amountStr) /\ amountStr <= 0)

\* The bids and the asks of the run whose amount on their side is unusable.
UnusableBids ==
    {q \in 1..Len(fnResult.bids) : Unusable(fnResult.bids[q].MakeAmount)}
UnusableAsks ==
    {q \in 1..Len(fnResult.asks) : Unusable(fnResult.asks[q].TakeAmount)}

\* C36: a bid whose make_amount, or an ask whose take_amount, is unparseable
\* or not positive is skipped: it is in no fill, the orders after it are
\* crossed as if it were not there, and the run returns no error.
C36_UnusableOrderSkipped ==
    Ran =>
      /\ ~fnResult.err
      /\ \A k \in 1..Len(Ev) :
            /\ \A q \in UnusableBids : Ev[k].bid.id # fnResult.bids[q].id
            /\ \A q \in UnusableAsks : Ev[k].ask.id # fnResult.asks[q].id
      /\ (/\ UnusableBids # 1..Len(fnResult.bids)
          /\ UnusableAsks # 1..Len(fnResult.asks))
         => /\ Len(Ev) >= 1
            /\ \A q \in 1..Len(fnResult.bids) :
                 Ev[1].i = q - 1 <=> (q \notin UnusableBids /\ 1..(q - 1) \subseteq UnusableBids)
            /\ \A q \in 1..Len(fnResult.asks) :
                 Ev[1].j = q - 1 <=> (q \notin UnusableAsks /\ 1..(q - 1) \subseteq UnusableAsks)

\* A run whose first bid and first ask were both skipped and whose second
\* bid and second ask were matched.
C36_Witness ==
    /\ Ran
    /\ 1 \in UnusableBids
    /\ 1 \in UnusableAsks
    /\ Len(Ev) >= 1
    /\ Ev[1].i = 1
    /\ Ev[1].j = 1
    /\ ~fnResult.err

\* ---------------------------------------------------------------------
\* claims about the single-fill server
\* ---------------------------------------------------------------------

\* The two orders paired in the fill of a match.
PairedIn(batch) == {batch.maker, batch.taker}

\* C37: in the single-fill server the two orders a match removes from the
\* book are the two orders paired in its fill, and no order is paired in
\* the fills of two batches, however the goroutines interleave.
C37_RemovedArePaired ==
    /\ \A k \in 1..Len(sfBatches) :
          /\ Len(sfBatches[k].removed) = 2
          /\ Range(sfBatches[k].removed) = PairedIn(sfBatches[k])
    /\ \A k \in 1..Len(sfBatches) : \A l \in 1..Len(sfBatches) :
          k # l => PairedIn(sfBatches[k]) \cap PairedIn(sfBatches[l]) = {}

\* The part of C37 about the removal alone.
RemovedArePaired ==
    \A k \in 1..Len(sfBatches) : Range(sfBatches[k].removed) = PairedIn(sfBatches[k])

\* The part of C37 about the batches alone.
PairedOnce ==
    \A k \in 1..Len(sfBatches) : \A l \in 1..Len(sfBatches) :
        k # l => PairedIn(sfBatches[k]) \cap PairedIn(sfBatches[l]) = {}

\* An order that left the book without a fill: not in the book, its
\* goroutine past its match, and in no batch's pair.
LeftUnfilled ==
    \E g \in Goroutines :
        /\ gr[g].pc \notin {"none"}
        /\ \A k \in 1..Len(sfOrderBook) : sfOrderBook[k].id # g
        /\ \A k \in 1..Len(sfBatches) : g \notin PairedIn(sfBatches[k])

\* ---------------------------------------------------------------------
\* claims about the settlement contract
\* ---------------------------------------------------------------------

\* The roots BatchSettlement has recorded.
RecordedRoots == {root \in EthRoots : batchRoots[root] # 0}

\* What the two contracts store.
Stored == <<batchRoots, totalBatchesSubmitted, disputedRoots, totalDisputes>>

\* A step that is a call of fn.  (A reverted call that repeats the call
\* before it changes nothing at all.)
CallOf(fn) == lastTx'.fn = fn /\ <<lastTx, Stored>>' # <<lastTx, Stored>>

\* C38: submitBatch records a root at most once: after a submitBatch(root)
\* that went through every later submitBatch(root) reverts; a call with empty
\* fills reverts; a call that reverts changes nothing stored; and
\* totalBatchesSubmitted is always the number of recorded roots.
C38_RootRecordedOnce ==
    /\ [](\A root \in EthRoots : succeeded.submitBatch[root] <= 1)
    /\ [](totalBatchesSubmitted = Cardinality(RecordedRoots))
    /\ [][CallOf("submitBatch") =>
            /\ succeeded.submitBatch[lastTx'.root] >= 1 => lastTx'.err # ""
            /\ lastTx'.fills = <<>> => lastTx'.err # ""
            /\ lastTx'.err # "" => UNCHANGED Stored
            /\ lastTx'.err = "" => /\ lastTx'.root \in RecordedRoots'
                                   /\ lastTx'.root \notin RecordedRoots]_vars

\* A root was recorded, and the submitBatch just made for it again has
\* reverted as a duplicate.
C38_Witness ==
    /\ lastTx.fn = "submitBatch"
    /\ lastTx.err = "DuplicateBatchRoot"
    /\ lastTx.fills # <<>>
    /\ succeeded.submitBatch[lastTx.root] = 1
    /\ totalBatchesSubmitted = 2

\* ---------------------------------------------------------------------
\* claims about the dispute contract
\* ---------------------------------------------------------------------

\* Price-time priority: a goes before b when its price is higher, or the
\* prices are equal and it is not the later one.
InPriorityOrder(a, b) ==
    a.price > b.price \/ (a.price = b.price /\ a.timestamp <= b.timestamp)

\* The roots marked disputed.
DisputedRoots == {root \in EthRoots : disputedRoots[root]}

\* C39: dispute goes through at most once per root, and only for a root
\* BatchSettlement has recorded, with orderAIdx < orderBIdx and a pair of
\* orders that is not in priority order; a dispute that fails changes
\* nothing stored; and totalDisputes is always the number of roots marked
\* disputed.
C39_DisputedOnce ==
    /\ [](\A root \in EthRoots : succeeded.dispute[root] <= 1)
    /\ [](totalDisputes = Cardinality(DisputedRoots))
    /\ [][CallOf("dispute") =>
            /\ lastTx'.err = "" =>
                 /\ lastTx'.root \in RecordedRoots
                 /\ lastTx'.root \notin DisputedRoots
                 /\ lastTx'.root \in DisputedRoots'
                 /\ lastTx'.orderAIdx < lastTx'.orderBIdx
                 /\ ~InPriorityOrder(lastTx'.orderA, lastTx'.orderB)
            /\ lastTx'.err # "" => UNCHANGED Stored]_vars

\* A root was disputed with the cheaper order shown first, and the dispute
\* just made for it again has reverted.
C39_Witness ==
    /\ lastTx.fn = "dispute"
    /\ lastTx.err = "RootAlreadyDisputed"
    /\ lastTx.orderAIdx < lastTx.orderBIdx
    /\ ~InPriorityOrder(lastTx.orderA, lastTx.orderB)
    /\ lastTx.orderA.price < lastTx.orderB.price
    /\ succeeded.dispute[lastTx.root] = 1
    /\ totalDisputes = 1

====
